---- MODULE Spec2Model ----
(***************************************************************************)
(* feed-to-mastodon: the entry store (SQLite table `entries`), the entry   *)
(* identity scheme, the fetch reconciliation (save + purge) and the post   *)
(* and catch-up commands.                                                  *)
(*                                                                         *)
(* The table is kept as a sequence of rows in rowid order: SQLite gives a  *)
(* new row of a table without AUTOINCREMENT the rowid max(rowid)+1, so a   *)
(* new row is always the last one and only the relative order of rowids    *)
(* is observable.  CURRENT_TIMESTAMP has a resolution of one second:       *)
(* `clock` is the current second, and several statements may run within    *)
(* the same second.                                                        *)
(***************************************************************************)
EXTENDS Integers, Sequences, FiniteSets, TLC

VARIABLES
    entries,     \* table `entries`, rows in rowid order
    settings,    \* table `settings`: rows [key, value]
    clock,       \* CURRENT_TIMESTAMP, in seconds
    ret,         \* what the last call of the store / fetcher API returned
    pc,          \* per process: where its command run stands
    loc,         \* per process: the local variables of its command run
    everPosted,  \* history: the ids a command run has marked posted
    schema       \* the database file's tables and its record of migrations

----------------------------------------------------------------------------
(* Bounds of the model *)

MaxClock == 1        \* seconds the clock may advance
MaxFeedLen == 2      \* items in one feed snapshot
MaxLimit == 2        \* largest limit passed to GetUnpostedEntries

----------------------------------------------------------------------------
(* Values *)

\* SQL NULL, a Go nil pointer; a present optional value v is <<v>>.
NULL == <<>>

\* gofeed.Item, the fields the program and the templates read.  Author is a
\* pointer: NULL or <<[Name |-> name]>>.
Item(guid, title, link, published, parsed, author) ==
    [GUID |-> guid, Title |-> title, Link |-> link,
     Published |-> published, PublishedParsed |-> parsed, Author |-> author]

\* The items feeds are built from: two with a GUID, one of them with a
\* parsed publication date and an author, and one without GUID.
FeedItems ==
    { Item("g1", "a", "b", "", <<1>>, <<[Name |-> "n"]>>),
      Item("g2", "a", "b", "", NULL, NULL),
      Item("", "a", "b", "", NULL, NULL) }

\* *gofeed.Feed: NULL (nil) or <<[Title |-> title, Items |-> items]>>.
RECURSIVE SeqsUpTo(_, _)
SeqsUpTo(S, n) ==
    IF n = 0 THEN { <<>> }
    ELSE LET shorter == SeqsUpTo(S, n - 1)
         IN  shorter \cup { Append(s, x) : s \in shorter, x \in S }

Feeds ==
    { <<[Title |-> "feed", Items |-> items]>> :
          items \in SeqsUpTo(FeedItems, MaxFeedLen) }

\* time.Time.String() of a parsed publication date.
TimeString(t) ==
    CASE t = 1 -> "2001-01-01 00:00:00 +0000 UTC"
      [] t = 2 -> "2002-01-01 00:00:00 +0000 UTC"
      [] OTHER -> "0001-01-01 00:00:00 +0000 UTC"

\* hex.EncodeToString(sha256.Sum256(s)): taken as collision-free, and never
\* equal to a GUID of FeedItems.
Sha256Hex(s) == "sha256:" \o s

\* Faulty variant: the link left out of the hashed string.
GenerateEntryID_NoLink(item) ==
    IF item.GUID # "" THEN item.GUID
    ELSE LET publishedStr ==
                 IF item.Published # "" THEN item.Published
                 ELSE IF item.PublishedParsed # NULL
                      THEN TimeString(item.PublishedParsed[1])
                      ELSE ""
             combined == item.Title \o publishedStr
         IN  Sha256Hex(combined)

\* Faulty variant: the publication date left out of the hashed string.
GenerateEntryID_NoDate(item) ==
    IF item.GUID # "" THEN item.GUID
    ELSE Sha256Hex(item.Title \o item.Link)

\* Faulty variant: the hash taken for every item.
GenerateEntryID_AlwaysHash(item) ==
    LET publishedStr ==
            IF item.Published # "" THEN item.Published
            ELSE IF item.PublishedParsed # NULL
                 THEN TimeString(item.PublishedParsed[1])
                 ELSE ""
        combined == item.Title \o item.Link \o publishedStr
    IN  Sha256Hex(combined)

GenerateEntryID(item) ==
    IF item.GUID # "" THEN item.GUID
    ELSE LET publishedStr ==
                 IF item.Published # "" THEN item.Published
                 ELSE IF item.PublishedParsed # NULL
                      THEN TimeString(item.PublishedParsed[1])
                      ELSE ""
             combined == item.Title \o item.Link \o publishedStr
         IN  Sha256Hex(combined)

\* json.Marshal(item) and json.Unmarshal(entryJSON, &item); Corrupt is a blob
\* that is no JSON document.
Marshal(item) == <<"json", item>>
Corrupt == <<"not json">>
Unmarshal(data) ==
    IF data[1] = "json" THEN [ok |-> TRUE, item |-> data[2]]
    ELSE [ok |-> FALSE, item |-> NULL]

\* json.Marshal(feed): of the feed document the model keeps the feed-level
\* field the templates read, the title; the items are not read back from it.
MarshalFeed(feed) == <<"json", [Title |-> feed.Title]>>

\* Ids and blobs the store API is called with: an id comes with the JSON of
\* an item it identifies; the id "g2" also with a corrupt blob.
EntryIDs == { GenerateEntryID(item) : item \in FeedItems }
EntryBlobs(id) ==
    { Marshal(item) : item \in { i \in FeedItems : GenerateEntryID(i) = id } }
        \cup (IF id = "g2" THEN { Corrupt } ELSE {})

----------------------------------------------------------------------------
(* The entry store: internal/database/db.go *)

IdsOf(rows) == { rows[i].id : i \in DOMAIN rows }

RowOf(rows, id) == rows[CHOOSE i \in DOMAIN rows : rows[i].id = id]

\* INSERT OR IGNORE INTO entries (id, entry_data, fetched_at, posted_at)
\* VALUES (?, ?, CURRENT_TIMESTAMP, NULL); created_at defaults to
\* CURRENT_TIMESTAMP.  id is the primary key.
\* Faulty variant: INSERT OR REPLACE, which deletes the old row and inserts a new one.
SaveEntry_InsertOrReplace(rows, id, entryJSON, now) ==
    LET Other(row) == row.id # id
    IN  [rows |-> Append(SelectSeq(rows, Other),
                         [id |-> id, entry_data |-> entryJSON,
                          posted_at |-> NULL, fetched_at |-> now,
                          created_at |-> now]),
         err |-> "none"]

\* Faulty variant: posted_at inserted as CURRENT_TIMESTAMP instead of NULL.
SaveEntry_InsertedAsPosted(rows, id, entryJSON, now) ==
    IF id \in IdsOf(rows)
    THEN [rows |-> rows, err |-> "none"]
    ELSE [rows |-> Append(rows, [id |-> id, entry_data |-> entryJSON,
                                 posted_at |-> <<now>>, fetched_at |-> now,
                                 created_at |-> now]),
          err |-> "none"]

\* Faulty variant: INSERT ... ON CONFLICT(id) DO UPDATE, which resets the row.
SaveEntry_Upsert(rows, id, entryJSON, now) ==
    IF id \in IdsOf(rows)
    THEN [rows |-> [i \in DOMAIN rows |->
                        IF rows[i].id = id
                        THEN [rows[i] EXCEPT !.entry_data = entryJSON,
                                             !.posted_at = NULL,
                                             !.fetched_at = now]
                        ELSE rows[i]],
          err |-> "none"]
    ELSE [rows |-> Append(rows, [id |-> id, entry_data |-> entryJSON,
                                 posted_at |-> NULL, fetched_at |-> now,
                                 created_at |-> now]),
          err |-> "none"]

SaveEntry(rows, id, entryJSON, now) ==
    IF id \in IdsOf(rows)
    THEN [rows |-> rows, err |-> "none"]
    ELSE [rows |-> Append(rows, [id |-> id, entry_data |-> entryJSON,
                                 posted_at |-> NULL, fetched_at |-> now,
                                 created_at |-> now]),
          err |-> "none"]

\* Faulty variant: the UPDATE without its WHERE clause.
MarkAsPosted_AllRows(rows, id, now) ==
    IF rows = <<>>
    THEN [rows |-> rows, err |-> "entry not found"]
    ELSE [rows |-> [i \in DOMAIN rows |-> [rows[i] EXCEPT !.posted_at = <<now>>]],
          err |-> "none"]

\* Faulty variant: the number of rows affected is not looked at.
MarkAsPosted_NoRowsAffectedCheck(rows, id, now) ==
    [rows |-> [i \in DOMAIN rows |->
                   IF rows[i].id = id
                   THEN [rows[i] EXCEPT !.posted_at = <<now>>]
                   ELSE rows[i]],
     err |-> "none"]

\* Faulty variant: success reported without a write.
MarkAsPosted_NoWrite(rows, id, now) ==
    IF id \notin IdsOf(rows)
    THEN [rows |-> rows, err |-> "entry not found"]
    ELSE [rows |-> rows, err |-> "none"]

\* UPDATE entries SET posted_at = CURRENT_TIMESTAMP WHERE id = ?
\* and "entry not found" when no row was affected.
MarkAsPosted(rows, id, now) ==
    IF id \notin IdsOf(rows)
    THEN [rows |-> rows, err |-> "entry not found"]
    ELSE [rows |-> [i \in DOMAIN rows |->
                        IF rows[i].id = id
                        THEN [rows[i] EXCEPT !.posted_at = <<now>>]
                        ELSE rows[i]],
          err |-> "none"]

\* ORDER BY fetched_at ASC.  SQL leaves the order of rows with equal
\* fetched_at open; the query plan of this statement (index search on
\* posted_at, then a sort of the rows met in rowid order) keeps rows of equal
\* fetched_at in rowid order, which is what the repository's ordering test
\* relies on when it saves three entries within one second.
RECURSIVE InsertByFetchedAt(_, _)
InsertByFetchedAt(sorted, row) ==
    IF sorted = <<>> THEN <<row>>
    ELSE IF Head(sorted).fetched_at <= row.fetched_at
         THEN <<Head(sorted)>> \o InsertByFetchedAt(Tail(sorted), row)
         ELSE <<row>> \o sorted

\* Faulty variant: ORDER BY fetched_at DESC.
RECURSIVE OrderByFetchedAt_Desc(_)
OrderByFetchedAt_Desc(rows) ==
    IF rows = <<>> THEN <<>>
    ELSE LET rest == OrderByFetchedAt_Desc(Tail(rows))
             Newer(row) == row.fetched_at > Head(rows).fetched_at
             NotNewer(row) == row.fetched_at <= Head(rows).fetched_at
         IN  SelectSeq(rest, Newer) \o <<Head(rows)>> \o SelectSeq(rest, NotNewer)

RECURSIVE OrderByFetchedAt(_)
OrderByFetchedAt(rows) ==
    IF rows = <<>> THEN <<>>
    ELSE InsertByFetchedAt(OrderByFetchedAt(SubSeq(rows, 1, Len(rows) - 1)),
                           rows[Len(rows)])

IsUnposted(row) == row.posted_at = NULL

\* Faulty variant: the query without WHERE posted_at IS NULL.
GetUnpostedEntries_NoWhere(rows, limit) ==
    LET selected == OrderByFetchedAt(rows)
        limited == IF limit > 0 /\ limit < Len(selected)
                   THEN SubSeq(selected, 1, limit)
                   ELSE selected
    IN  [entries |-> limited, isNil |-> FALSE, err |-> "none"]

\* Faulty variant: LIMIT appended for limit >= 0, so that LIMIT 0 returns no row.
GetUnpostedEntries_LimitZero(rows, limit) ==
    LET selected == OrderByFetchedAt(SelectSeq(rows, IsUnposted))
        limited == IF limit >= 0 /\ limit < Len(selected)
                   THEN SubSeq(selected, 1, limit)
                   ELSE selected
    IN  [entries |-> limited, isNil |-> FALSE, err |-> "none"]

\* SELECT ... FROM entries WHERE posted_at IS NULL ORDER BY fetched_at ASC
\* [LIMIT limit]; the result slice is made with make([]*Entry, 0).
GetUnpostedEntries(rows, limit) ==
    LET selected == OrderByFetchedAt(SelectSeq(rows, IsUnposted))
        limited == IF limit > 0 /\ limit < Len(selected)
                   THEN SubSeq(selected, 1, limit)
                   ELSE selected
    IN  [entries |-> limited, isNil |-> FALSE, err |-> "none"]

\* SELECT id FROM entries: every known id.
GetAllEntryIDs(rows) == [i \in DOMAIN rows |-> rows[i].id]

\* Bulk delete of the rows whose id is listed; the count of rows removed.
DeleteEntries(rows, ids) ==
    LET listed == { ids[i] : i \in DOMAIN ids }
        Kept(row) == row.id \notin listed
        kept == SelectSeq(rows, Kept)
    IN  [rows |-> kept, n |-> Len(rows) - Len(kept), err |-> "none"]

\* The three queries of GetStats, each a statement of its own on db.conn:
\* SELECT COUNT(*) FROM entries, ... WHERE posted_at IS NOT NULL and
\* ... WHERE posted_at IS NULL.
CountTotal(rows) == Len(rows)

CountPosted(rows) ==
    LET IsPosted(row) == row.posted_at # NULL
    IN  Len(SelectSeq(rows, IsPosted))

CountUnposted(rows) == Len(SelectSeq(rows, IsUnposted))

\* Faulty variant: the third query counts every row.
GetStats_UnpostedIsTotal(rows) ==
    LET IsPosted(row) == row.posted_at # NULL
    IN  [total |-> Len(rows),
         posted |-> Len(SelectSeq(rows, IsPosted)),
         unposted |-> Len(rows),
         err |-> "none"]

\* GetStats while nothing else writes to the table: the three queries see
\* the same rows.
GetStats(rows) ==
    [total |-> CountTotal(rows),
     posted |-> CountPosted(rows),
     unposted |-> CountUnposted(rows),
     err |-> "none"]

\* The settings table: read of a key (NULL when the key is not set) and
\* upsert of a key.
\* The table is a set of rows [key, value].
GetSetting(table, key) ==
    LET found == { row \in table : row.key = key }
    IN  IF found = {} THEN NULL ELSE <<(CHOOSE row \in found : TRUE).value>>

\* Faulty variant: a plain INSERT, which adds a row whatever the table holds.
SetSetting_PlainInsert(table, key, value) ==
    table \cup { [key |-> key, value |-> value] }

SetSetting(table, key, value) ==
    { row \in table : row.key # key } \cup { [key |-> key, value |-> value] }

----------------------------------------------------------------------------
(* Opening the database file: database.New, InitSchema, RunMigrations *)

\* The database file as far as opening it goes: `defined` are the versions
\* getMigrations() has a script for (version 1 is the initial schema, which
\* InitSchema creates), `tables` the tables of the file, `recorded` the rows
\* of schema_migrations (version is its primary key) and applied[v] the
\* number of times the script of version v was executed on the file.
\* The versions getMigrations() may define: none, as in migrations.go, the
\* settings table as version 2, which the tests expect, and later ones.
MigrationSets == SUBSET {2, 3}

NewFile(defined, tables) ==
    [defined |-> defined, tables |-> tables, recorded |-> {},
     applied |-> [v \in defined |-> 0]]

MaxOf(S) == CHOOSE m \in S : \A x \in S : x <= m

\* CREATE TABLE IF NOT EXISTS entries ...
InitSchema(file) == [file EXCEPT !.tables = @ \cup {"entries"}]

\* SELECT COALESCE(MAX(version), 0) FROM schema_migrations; 0 when the
\* table does not exist.
GetMigrationVersion(file) ==
    IF "schema_migrations" \notin file.tables THEN 0
    ELSE MaxOf(file.recorded \cup {0})

\* INSERT INTO schema_migrations (version) VALUES (version)
RecordVersion(file, version) ==
    IF version \in file.recorded
    THEN [file |-> file, err |-> "UNIQUE constraint failed"]
    ELSE [file |-> [file EXCEPT !.recorded = @ \cup {version}], err |-> "none"]

\* db.conn.Exec(sql) with the script of a version.
ExecuteMigration(file, version) ==
    [file EXCEPT !.applied[version] = @ + 1,
                 !.tables = IF version = 2 THEN @ \cup {"settings"} ELSE @]

\* ApplyMigration(version, sql): the script is executed, then recorded.
ApplyMigration(file, version) ==
    LET executed == ExecuteMigration(file, version)
        r == RecordVersion(executed, version)
    IN  [file |-> r.file,
         err |-> IF r.err = "none" THEN "none" ELSE "failed to record migration"]

\* The loop of RunMigrations: for version := currentVersion + 1 up to
\* maxVersion, the versions that have a script are applied; the first error
\* ends it.
RECURSIVE ApplyPending(_, _, _)
ApplyPending(file, version, maxVersion) ==
    IF version > maxVersion
    THEN [file |-> file, err |-> "none", appliedCount |-> 0]
    ELSE IF version \in file.defined
    THEN LET r == ApplyMigration(file, version)
             rest == ApplyPending(r.file, version + 1, maxVersion)
         IN  IF r.err # "none"
             THEN [file |-> r.file, err |-> r.err, appliedCount |-> 0]
             ELSE [file |-> rest.file, err |-> rest.err,
                   appliedCount |-> 1 + rest.appliedCount]
    ELSE ApplyPending(file, version + 1, maxVersion)

\* Faulty variant: version 1 is recorded whenever the entries table exists,
\* not only when no version is recorded yet.
RunMigrations_RecordsInitialAlways(file) ==
    LET withTable == [file EXCEPT !.tables = @ \cup {"schema_migrations"}]
        version0 == GetMigrationVersion(withTable)
        initial == IF "entries" \in withTable.tables
                   THEN RecordVersion(withTable, 1)
                   ELSE [file |-> withTable, err |-> "none"]
        currentVersion == IF version0 = 0 THEN 1 ELSE version0
        maxVersion == MaxOf(file.defined \cup {1})
    IN  IF initial.err # "none"
        THEN [file |-> initial.file, appliedCount |-> 0,
              err |-> "failed to record initial schema version"]
        ELSE IF currentVersion >= maxVersion
        THEN [file |-> initial.file, err |-> "none", appliedCount |-> 0]
        ELSE ApplyPending(initial.file, currentVersion + 1, maxVersion)

\* RunMigrations()
RunMigrations(file) ==
    LET withTable == [file EXCEPT !.tables = @ \cup {"schema_migrations"}]
        version0 == GetMigrationVersion(withTable)
        initial == IF version0 = 0 /\ "entries" \in withTable.tables
                   THEN RecordVersion(withTable, 1)
                   ELSE [file |-> withTable, err |-> "none"]
        currentVersion == IF version0 = 0 /\ "entries" \in withTable.tables
                          THEN 1 ELSE version0
        maxVersion == MaxOf(file.defined \cup {1})
    IN  IF initial.err # "none"
        THEN [file |-> initial.file, appliedCount |-> 0,
              err |-> "failed to record initial schema version"]
        ELSE IF currentVersion >= maxVersion
        THEN [file |-> initial.file, err |-> "none", appliedCount |-> 0]
        ELSE ApplyPending(initial.file, currentVersion + 1, maxVersion)

\* database.New(dbPath): InitSchema, then RunMigrations.
New(file) == RunMigrations(InitSchema(file))

----------------------------------------------------------------------------
(* The fetcher: internal/feed/fetcher.go *)

\* Faulty variant: the GUID taken as the id of every item.
FeedIDs_GUIDOnly(items) == { items[i].GUID : i \in DOMAIN items }

\* The ids of a feed's items (feedIDs).
FeedIDs(items) == { GenerateEntryID(items[i]) : i \in DOMAIN items }

\* The known ids that are no id of the feed (toPurge), in the order read.
ToPurge(dbIDs, feedIDs) ==
    LET Stale(id) == id \notin feedIDs
    IN  SelectSeq(dbIDs, Stale)

\* What may go wrong with one item in the loop of SaveEntriesToDB:
\* json.Marshal returns an error ("marshal"), or SaveEntry returns the error
\* of the INSERT ("save").
ItemFaults == { "none", "marshal", "save" }

NoFaults(items) == [k \in DOMAIN items |-> "none"]

\* Faulty variant: the loop is left at the first item that fails.
RECURSIVE SaveItems_BreaksOnError(_, _, _, _)
SaveItems_BreaksOnError(rows, items, now, faults) ==
    IF items = <<>> THEN [rows |-> rows, savedCount |-> 0]
    ELSE IF Head(faults) # "none" THEN [rows |-> rows, savedCount |-> 0]
    ELSE LET item == Head(items)
             r == SaveEntry(rows, GenerateEntryID(item), Marshal(item), now)
             rest == SaveItems_BreaksOnError(r.rows, Tail(items), now, Tail(faults))
         IN  [rows |-> rest.rows, savedCount |-> 1 + rest.savedCount]

\* SaveEntriesToDB(feed, db) as a whole, within the second `now`: every item
\* is saved under its id, in the order of the feed; faults[k] is what goes
\* wrong with the k-th item.  An item that fails is skipped (continue).
RECURSIVE SaveItems(_, _, _, _)
SaveItems(rows, items, now, faults) ==
    IF items = <<>> THEN [rows |-> rows, savedCount |-> 0]
    ELSE LET item == Head(items)
             r == IF Head(faults) = "none"
                  THEN SaveEntry(rows, GenerateEntryID(item), Marshal(item), now)
                  ELSE [rows |-> rows, err |-> Head(faults)]
             rest == SaveItems(r.rows, Tail(items), now, Tail(faults))
         IN  [rows |-> rest.rows,
              savedCount |-> (IF r.err = "none" THEN 1 ELSE 0) + rest.savedCount]

SaveEntriesToDB(rows, feed, now, faults) ==
    IF feed = NULL \/ Len(feed[1].Items) = 0
    THEN [rows |-> rows, savedCount |-> 0, err |-> "none"]
    ELSE LET r == SaveItems(rows, feed[1].Items, now, faults)
         IN  [rows |-> r.rows, savedCount |-> r.savedCount, err |-> "none"]

\* Faulty variant: a nil feed handled like a feed without items.
PurgeStaleEntries_NilAsEmpty(rows, feed) ==
    LET items == IF feed = NULL THEN <<>> ELSE feed[1].Items
        toPurge == ToPurge(GetAllEntryIDs(rows), FeedIDs(items))
    IN  IF Len(toPurge) = 0
        THEN [rows |-> rows, n |-> 0, err |-> "none"]
        ELSE DeleteEntries(rows, toPurge)

PurgeStaleEntries(rows, feed) ==
    IF feed = NULL
    THEN [rows |-> rows, n |-> 0, err |-> "feed is nil"]
    ELSE LET toPurge == ToPurge(GetAllEntryIDs(rows), FeedIDs(feed[1].Items))
         IN  IF Len(toPurge) = 0
             THEN [rows |-> rows, n |-> 0, err |-> "none"]
             ELSE DeleteEntries(rows, toPurge)

\* What runFetch does to the table of entries with a feed it has fetched,
\* when every item is saved: SaveEntriesToDB, then PurgeStaleEntries unless
\* --no-purge.
FetchAndPurge(rows, feed, noPurge, now) ==
    LET s == SaveEntriesToDB(rows, feed, now, NoFaults(feed[1].Items))
        g == IF noPurge THEN [rows |-> s.rows, n |-> 0]
             ELSE PurgeStaleEntries(s.rows, feed)
    IN  [rows |-> g.rows, saved |-> s.savedCount, purged |-> g.n]

----------------------------------------------------------------------------
(* The template renderer and the poster *)

\* The templates a run is configured with: {{.Item.Title}} and
\* {{.Item.Author.Name}}, whose execution fails on an item without author.
Templates == { "title", "author" }

\* tmpl.Execute(&buf, data)
Execute(tmpl, data) ==
    CASE tmpl = "title" -> [out |-> data.Item.Title, ok |-> TRUE]
      [] tmpl = "author" ->
             IF data.Item.Author = NULL
             THEN [out |-> "", ok |-> FALSE]
             ELSE [out |-> data.Item.Author[1].Name, ok |-> TRUE]

\* Renderer.Render(entryJSON), for a renderer with template tmpl and feed.
Render(tmpl, feed, entryJSON) ==
    LET u == Unmarshal(entryJSON)
    IN  IF ~u.ok
        THEN [out |-> "", err |-> "failed to unmarshal entry"]
        ELSE LET x == Execute(tmpl, [Item |-> u.item, Feed |-> feed])
             IN  IF ~x.ok
                 THEN [out |-> "", err |-> "failed to execute template"]
                 ELSE [out |-> x.out, err |-> "none"]

\* Faulty variant: the toot is sent whatever dryRun is.
Post_AlwaysSends(content, dryRun, accepted) ==
    [err |-> IF accepted THEN "none" ELSE "failed to post to Mastodon",
     toots |-> <<content>>]

\* Poster.Post(content, dryRun); accepted tells whether the server accepts
\* the status when it is sent.  toots are the toots handed to the client's
\* PostStatus by the call.
Post(content, dryRun, accepted) ==
    IF dryRun THEN [err |-> "none", toots |-> <<>>]
    ELSE [err |-> IF accepted THEN "none" ELSE "failed to post to Mastodon",
          toots |-> <<content>>]

\* []*Entry as a caller holds it: ID and EntryData of each row.
AsEntries(rows) ==
    [i \in DOMAIN rows |-> [ID |-> rows[i].id, EntryData |-> rows[i].entry_data]]

\* The body of the loop of PostEntries for one entry: render, then dispatch
\* of what was rendered; ok when both succeeded.
PostOne(tmpl, feed, dryRun, entry, accepted) ==
    LET content == Render(tmpl, feed, entry.EntryData)
        sent == IF content.err = "none"
                THEN Post(content.out, dryRun, accepted)
                ELSE [err |-> "not called", toots |-> <<>>]
    IN  [ok |-> content.err = "none" /\ sent.err = "none",
         toots |-> sent.toots]

\* Faulty variant: the loop ends at the first entry that fails.
RECURSIVE PostEntries_StopsAtFailure(_, _, _, _, _)
PostEntries_StopsAtFailure(batch, tmpl, feed, dryRun, answers) ==
    IF batch = <<>>
    THEN [posted |-> 0, err |-> "none", attempted |-> <<>>]
    ELSE LET one == PostOne(tmpl, feed, dryRun, Head(batch), Head(answers))
             rest == IF one.ok
                     THEN PostEntries_StopsAtFailure(Tail(batch), tmpl, feed,
                                                     dryRun, Tail(answers))
                     ELSE [posted |-> 0, err |-> "none", attempted |-> <<>>]
         IN  [posted |-> (IF one.ok THEN 1 ELSE 0) + rest.posted,
              err |-> "none",
              attempted |-> <<Head(batch).ID>> \o rest.attempted]

\* Poster.PostEntries(entries, renderer, dryRun) as a whole; answers[k] is
\* the server's answer to the k-th entry.  attempted lists the ids the loop
\* has rendered, in its order.
RECURSIVE PostEntries(_, _, _, _, _)
PostEntries(batch, tmpl, feed, dryRun, answers) ==
    IF batch = <<>>
    THEN [posted |-> 0, err |-> "none", attempted |-> <<>>]
    ELSE LET one == PostOne(tmpl, feed, dryRun, Head(batch), Head(answers))
             rest == PostEntries(Tail(batch), tmpl, feed, dryRun, Tail(answers))
         IN  [posted |-> (IF one.ok THEN 1 ELSE 0) + rest.posted,
              err |-> "none",
              attempted |-> <<Head(batch).ID>> \o rest.attempted]

\* The server's answers to the entries of one batch.
Answers == [1 .. Cardinality(EntryIDs) -> BOOLEAN]

----------------------------------------------------------------------------
(* The store API as its callers and tests use it *)

Tick ==
    /\ clock < MaxClock
    /\ clock' = clock + 1
    /\ UNCHANGED <<entries, ret, settings, pc, loc, everPosted, schema>>

SaveEntryCall(id, data) ==
    LET r == SaveEntry(entries, id, data, clock)
    IN  /\ entries' = r.rows
        /\ ret' = [op |-> "SaveEntry", arg |-> <<id, data>>, err |-> r.err,
                   val |-> NULL]
        /\ UNCHANGED <<clock, settings, pc, loc, everPosted, schema>>

MarkAsPostedCall(id) ==
    LET r == MarkAsPosted(entries, id, clock)
    IN  /\ entries' = r.rows
        /\ ret' = [op |-> "MarkAsPosted", arg |-> NULL, err |-> r.err, val |-> NULL]
        /\ UNCHANGED <<clock, settings, pc, loc, everPosted, schema>>

GetUnpostedEntriesCall(limit) ==
    LET r == GetUnpostedEntries(entries, limit)
    IN  /\ ret' = [op |-> "GetUnpostedEntries", arg |-> NULL, err |-> r.err,
                   val |-> [ids |-> [i \in DOMAIN r.entries |-> r.entries[i].id],
                            isNil |-> r.isNil]]
        /\ UNCHANGED <<entries, clock, settings, pc, loc, everPosted, schema>>

DeleteEntriesCall(ids) ==
    LET r == DeleteEntries(entries, ids)
    IN  /\ entries' = r.rows
        /\ ret' = [op |-> "DeleteEntries", arg |-> NULL, err |-> r.err,
                   val |-> r.n]
        /\ UNCHANGED <<clock, settings, pc, loc, everPosted, schema>>

PurgeStaleEntriesCall(feed) ==
    LET r == PurgeStaleEntries(entries, feed)
    IN  /\ entries' = r.rows
        /\ ret' = [op |-> "PurgeStaleEntries", arg |-> NULL, err |-> r.err,
                   val |-> r.n]
        /\ UNCHANGED <<clock, settings, pc, loc, everPosted, schema>>

GetStatsCall ==
    LET r == GetStats(entries)
    IN  /\ ret' = [op |-> "GetStats", arg |-> NULL, err |-> r.err,
                   val |-> [total |-> r.total, posted |-> r.posted,
                            unposted |-> r.unposted]]
        /\ UNCHANGED <<entries, clock, settings, pc, loc, everPosted, schema>>

\* PostEntries on the unposted entries, as the tests of the poster call it.
PostEntriesCall(tmpl, dryRun, answers) ==
    LET batch == AsEntries(GetUnpostedEntries(entries, 0).entries)
        r == PostEntries(batch, tmpl, NULL, dryRun, answers)
    IN  /\ ret' = [op |-> "PostEntries", arg |-> NULL, err |-> r.err,
                   val |-> [posted |-> r.posted, attempted |-> r.attempted]]
        /\ UNCHANGED <<entries, clock, settings, pc, loc, everPosted, schema>>

\* SaveEntriesToDB(feed, db); faults[k] is what goes wrong with the k-th item.
SaveEntriesToDBCall(feed, faults) ==
    LET r == SaveEntriesToDB(entries, feed, clock, faults)
    IN  /\ entries' = r.rows
        /\ ret' = [op |-> "SaveEntriesToDB", arg |-> faults, err |-> r.err,
                   val |-> r.savedCount]
        /\ UNCHANGED <<clock, settings, pc, loc, everPosted, schema>>

vars == <<entries, settings, clock, ret, pc, loc, everPosted, schema>>

\* The processes that run commands against the database file.
Procs == { "p1" }

\* A database file just created by database.New, and no command running.
Init ==
    /\ entries = <<>>
    /\ settings = {}
    /\ clock = 0
    /\ ret = [op |-> "New", arg |-> NULL, err |-> "none", val |-> NULL]
    /\ pc = [p \in Procs |-> "idle"]
    /\ loc = [p \in Procs |-> [cmd |-> "none"]]
    /\ everPosted = {}
    /\ schema = New(NewFile({2}, {})).file

Next ==
    \/ Tick
    \/ \E id \in EntryIDs : \E data \in EntryBlobs(id) : SaveEntryCall(id, data)
    \/ \E id \in EntryIDs : MarkAsPostedCall(id)
    \/ \E limit \in -1 .. MaxLimit : GetUnpostedEntriesCall(limit)
    \/ \E id \in EntryIDs : DeleteEntriesCall(<<id>>)
    \/ \E feed \in Feeds \cup {NULL} : PurgeStaleEntriesCall(feed)
    \/ \E tmpl \in Templates : \E dryRun \in BOOLEAN : \E answers \in Answers :
           PostEntriesCall(tmpl, dryRun, answers)
    \/ GetStatsCall

Spec == Init /\ [][Next]_vars

\* The fetcher's SaveEntriesToDB called again and again on the feeds it may
\* be given, with any of its items failing, while entries are marked posted
\* and time passes.
FetcherNext ==
    \/ Tick
    \/ \E id \in EntryIDs : MarkAsPostedCall(id)
    \/ \E feed \in Feeds :
           \E faults \in [DOMAIN feed[1].Items -> ItemFaults] :
               SaveEntriesToDBCall(feed, faults)

FetcherSpec == Init /\ [][FetcherNext]_vars

----------------------------------------------------------------------------
(* The commands: internal/commands *)

\* config.Config, the fields Validate reads.
ValidConfig ==
    [FeedURL |-> "https://example.com/feed", MastodonServer |-> "https://m.example",
     MastodonAccessToken |-> "token", PostVisibility |-> "public"]

\* The configurations a run may be started with: a valid one, and one for
\* each way of being invalid.
Configs ==
    { ValidConfig,
      [ValidConfig EXCEPT !.FeedURL = ""],
      [ValidConfig EXCEPT !.MastodonServer = ""],
      [ValidConfig EXCEPT !.MastodonAccessToken = ""],
      [ValidConfig EXCEPT !.PostVisibility = "everyone"] }

\* Config.Validate(): the error, or "none".
Validate(c) ==
    IF c.FeedURL = "" THEN "feedUrl is required"
    ELSE IF c.MastodonServer = "" THEN "mastodonServer is required"
    ELSE IF c.MastodonAccessToken = "" THEN "mastodonAccessToken is required"
    ELSE IF c.PostVisibility \notin {"public", "unlisted", "private", "direct"}
    THEN "postVisibility must be one of: public, unlisted, private, direct"
    ELSE "none"

\* getAccessToken(cfg, db): the token of the configuration, else the one
\* stored in the settings.
getAccessToken(cfg, table) ==
    IF cfg.MastodonAccessToken # ""
    THEN [token |-> cfg.MastodonAccessToken, err |-> "none"]
    ELSE LET token == GetSetting(table, "mastodon_access_token")
         IN  IF token = NULL \/ token[1] = ""
             THEN [token |-> "", err |-> "no access token found"]
             ELSE [token |-> token[1], err |-> "none"]

\* Faulty variant: --posts 0 taken as "flag not given".
PostLimit_ZeroKeepsConfig(cfgMaxItems, flagChanged, maxPosts) ==
    IF flagChanged /\ maxPosts > 0 THEN maxPosts ELSE cfgMaxItems

\* limit := cfg.MaxItems; if the flag --posts was given, limit = maxPosts.
PostLimit(cfgMaxItems, flagChanged, maxPosts) ==
    IF flagChanged THEN maxPosts ELSE cfgMaxItems

\* The feed the renderer is given: the stored feed metadata, if any.
LoadFeedMetadata(table) ==
    LET feedMetadata == GetSetting(table, "feed_metadata")
    IN  IF feedMetadata # NULL /\ Unmarshal(feedMetadata[1]).ok
        THEN <<Unmarshal(feedMetadata[1]).item>>
        ELSE NULL

\* -- fetch -----------------------------------------------------------------

\* runFetch up to the feed request: the configuration is loaded and
\* validated, then the database is opened and the statistics are read.  An
\* invalid configuration ends the run before the database is opened;
\* `opened` tells whether the run has called database.New.
FetchStart(p, cfg, noPurge) ==
    /\ pc[p] = "idle"
    /\ IF Validate(cfg) # "none"
       THEN /\ pc' = [pc EXCEPT ![p] = "done"]
            /\ loc' = [loc EXCEPT ![p] = [cmd |-> "fetch",
                                          err |-> "invalid config",
                                          detail |-> Validate(cfg),
                                          opened |-> FALSE]]
       ELSE /\ pc' = [pc EXCEPT ![p] = "fetch_feed"]
            /\ loc' = [loc EXCEPT ![p] = [cmd |-> "fetch", noPurge |-> noPurge,
                                          totalBefore |-> GetStats(entries).total]]
    /\ UNCHANGED <<entries, settings, clock, ret, everPosted, schema>>

\* Faulty variant: StoreFeedMetadata is called before the error of Fetch is
\* looked at, and stores the JSON of a nil feed.
FetchFeed_StoresMetadataFirst(p, feed) ==
    /\ pc[p] = "fetch_feed"
    /\ IF feed = NULL
       THEN /\ pc' = [pc EXCEPT ![p] = "done"]
            /\ loc' = [loc EXCEPT ![p] = [cmd |-> "fetch",
                                          err |-> "failed to fetch feed"]]
            /\ settings' = SetSetting(settings, "feed_metadata", <<"null">>)
       ELSE /\ pc' = [pc EXCEPT ![p] = IF Len(feed[1].Items) = 0
                                       THEN "fetch_meta" ELSE "fetch_save"]
            /\ loc' = [loc EXCEPT ![p] = [cmd |-> "fetch",
                                          noPurge |-> loc[p].noPurge,
                                          totalBefore |-> loc[p].totalBefore,
                                          feed |-> feed, i |-> 1,
                                          savedCount |-> 0, inserted |-> {}]]
            /\ settings' = settings
    /\ UNCHANGED <<entries, clock, ret, everPosted, schema>>

\* fetcher.Fetch(cfg.FeedURL): a feed snapshot, or (feed = NULL) an error,
\* which ends the run.
FetchFeed(p, feed) ==
    /\ pc[p] = "fetch_feed"
    /\ IF feed = NULL
       THEN /\ pc' = [pc EXCEPT ![p] = "done"]
            /\ loc' = [loc EXCEPT ![p] = [cmd |-> "fetch",
                                          err |-> "failed to fetch feed"]]
       ELSE /\ pc' = [pc EXCEPT ![p] = IF Len(feed[1].Items) = 0
                                       THEN "fetch_meta" ELSE "fetch_save"]
            /\ loc' = [loc EXCEPT ![p] = [cmd |-> "fetch",
                                          noPurge |-> loc[p].noPurge,
                                          totalBefore |-> loc[p].totalBefore,
                                          feed |-> feed, i |-> 1,
                                          savedCount |-> 0, inserted |-> {}]]
    /\ UNCHANGED <<entries, settings, clock, ret, everPosted, schema>>

\* One iteration of the loop of SaveEntriesToDB.  `inserted` records the
\* ids whose INSERT has added a row.
FetchSaveEntry(p) ==
    /\ pc[p] = "fetch_save"
    /\ LET items == loc[p].feed[1].Items
           item == items[loc[p].i]
           id == GenerateEntryID(item)
           r == SaveEntry(entries, id, Marshal(item), clock)
       IN  /\ entries' = r.rows
           /\ loc' = [loc EXCEPT ![p].i = @ + 1,
                                 ![p].savedCount =
                                     IF r.err = "none" THEN @ + 1 ELSE @,
                                 ![p].inserted =
                                     IF Len(r.rows) > Len(entries)
                                     THEN @ \cup {id} ELSE @]
           /\ pc' = [pc EXCEPT ![p] = IF loc[p].i = Len(items)
                                      THEN "fetch_meta" ELSE "fetch_save"]
    /\ UNCHANGED <<settings, clock, ret, everPosted, schema>>

\* Faulty variant: the purge follows whatever --no-purge is.
FetchStoreFeedMetadata_AlwaysPurges(p) ==
    /\ pc[p] = "fetch_meta"
    /\ settings' = SetSetting(settings, "feed_metadata", MarshalFeed(loc[p].feed[1]))
    /\ pc' = [pc EXCEPT ![p] = "fetch_purge"]
    /\ UNCHANGED <<entries, clock, ret, loc, everPosted, schema>>

\* StoreFeedMetadata(feed, db)
FetchStoreFeedMetadata(p) ==
    /\ pc[p] = "fetch_meta"
    /\ settings' = SetSetting(settings, "feed_metadata", MarshalFeed(loc[p].feed[1]))
    /\ pc' = [pc EXCEPT ![p] = IF loc[p].noPurge
                               THEN "fetch_stats" ELSE "fetch_purge"]
    /\ UNCHANGED <<entries, clock, ret, loc, everPosted, schema>>

\* PurgeStaleEntries(feed, db), unless --no-purge.
FetchPurge(p) ==
    /\ pc[p] = "fetch_purge"
    /\ LET r == PurgeStaleEntries(entries, loc[p].feed)
       IN  /\ entries' = r.rows
           /\ loc' = [loc EXCEPT ![p] =
                          [cmd |-> "fetch", noPurge |-> FALSE,
                           totalBefore |-> loc[p].totalBefore,
                           feed |-> loc[p].feed,
                           savedCount |-> loc[p].savedCount,
                           inserted |-> loc[p].inserted, purged |-> r.n]]
    /\ pc' = [pc EXCEPT ![p] = "fetch_stats"]
    /\ UNCHANGED <<settings, clock, ret, everPosted, schema>>

\* Faulty variant: the purged entries left out of the number of new entries.
FetchFinish_ForgetsPurged(p) ==
    /\ pc[p] = "fetch_stats"
    /\ LET purged == IF loc[p].noPurge THEN 0 ELSE loc[p].purged
           totalAfter == GetStats(entries).total
           saved == loc[p].savedCount
       IN  loc' = [loc EXCEPT ![p] =
                       [cmd |-> "fetch", err |-> "none",
                        noPurge |-> loc[p].noPurge, feed |-> loc[p].feed,
                        newEntries |-> totalAfter - loc[p].totalBefore,
                        purged |-> purged, saved |-> saved,
                        skipped |-> Len(loc[p].feed[1].Items) - saved,
                        inserted |-> loc[p].inserted]]
    /\ pc' = [pc EXCEPT ![p] = "done"]
    /\ UNCHANGED <<entries, settings, clock, ret, everPosted, schema>>

\* The statistics after the fetch and the summary of the run: the number of
\* new entries, and what is logged as saved and as skipped duplicates.
FetchFinish(p) ==
    /\ pc[p] = "fetch_stats"
    /\ LET purged == IF loc[p].noPurge THEN 0 ELSE loc[p].purged
           totalAfter == GetStats(entries).total
           saved == loc[p].savedCount
       IN  loc' = [loc EXCEPT ![p] =
                       [cmd |-> "fetch", err |-> "none",
                        noPurge |-> loc[p].noPurge, feed |-> loc[p].feed,
                        newEntries |-> totalAfter - loc[p].totalBefore + purged,
                        purged |-> purged, saved |-> saved,
                        skipped |-> Len(loc[p].feed[1].Items) - saved,
                        inserted |-> loc[p].inserted]]
    /\ pc' = [pc EXCEPT ![p] = "done"]
    /\ UNCHANGED <<entries, settings, clock, ret, everPosted, schema>>

\* -- post ------------------------------------------------------------------

\* runPost up to the validation of the configuration: the configuration is
\* loaded, the database is opened, the access token is looked up (in the
\* settings when the configuration has none), and then the configuration is
\* validated; `opened` tells whether the run has called database.New.
PostStart(p, cfg, dryRun) ==
    /\ pc[p] = "idle"
    /\ LET accessToken == getAccessToken(cfg, settings)
           Failed(err, detail) ==
               [cmd |-> "post", err |-> err, detail |-> detail,
                opened |-> TRUE, dryRun |-> dryRun, entries |-> <<>>,
                posted |-> 0, succeeded |-> {}, marked |-> {}, calls |-> 0,
                sent |-> <<>>]
       IN  IF accessToken.err # "none"
           THEN /\ pc' = [pc EXCEPT ![p] = "done"]
                /\ loc' = [loc EXCEPT ![p] =
                               Failed("authentication required", accessToken.err)]
           ELSE IF Validate(cfg) # "none"
           THEN /\ pc' = [pc EXCEPT ![p] = "done"]
                /\ loc' = [loc EXCEPT ![p] =
                               Failed("invalid config", Validate(cfg))]
           ELSE /\ pc' = [pc EXCEPT ![p] = "post_read"]
                /\ loc' = [loc EXCEPT ![p] =
                               [cmd |-> "post", dryRun |-> dryRun,
                                opened |-> TRUE]]
    /\ UNCHANGED <<entries, settings, clock, ret, everPosted, schema>>

\* runPost from there up to the call of PostEntries: the limit is fixed, the
\* batch is read, and the renderer is given the template and the stored feed
\* metadata.  Without unposted entries the run ends here.  cfgMaxItems is
\* cfg.MaxItems, flagChanged tells whether --posts was given, maxPosts is
\* its value.
PostRead(p, cfgMaxItems, flagChanged, maxPosts, tmpl) ==
    /\ pc[p] = "post_read"
    /\ LET limit == PostLimit(cfgMaxItems, flagChanged, maxPosts)
           r == GetUnpostedEntries(entries, limit)
           dryRun == loc[p].dryRun
       IN  IF Len(r.entries) = 0
           THEN /\ pc' = [pc EXCEPT ![p] = "done"]
                /\ loc' = [loc EXCEPT ![p] =
                               [cmd |-> "post", err |-> "none",
                                dryRun |-> dryRun, entries |-> <<>>,
                                posted |-> 0, succeeded |-> {}, marked |-> {},
                                calls |-> 0, sent |-> <<>>]]
           ELSE /\ pc' = [pc EXCEPT ![p] = "post_entries"]
                /\ loc' = [loc EXCEPT ![p] =
                               [cmd |-> "post", dryRun |-> dryRun,
                                cfgMaxItems |-> cfgMaxItems,
                                flagChanged |-> flagChanged,
                                maxPosts |-> maxPosts, tmpl |-> tmpl,
                                feed |-> LoadFeedMetadata(settings),
                                entries |-> AsEntries(r.entries),
                                i |-> 1, posted |-> 0, succeeded |-> {},
                                calls |-> 0, sent |-> <<>>]]
    /\ UNCHANGED <<entries, settings, clock, ret, everPosted, schema>>

\* Faulty variant: an entry is marked posted as soon as it is dispatched.
PostEntry_MarksAtOnce(p, accepted) ==
    /\ pc[p] = "post_entries"
    /\ LET l == loc[p]
           entry == l.entries[l.i]
           one == PostOne(l.tmpl, l.feed, l.dryRun, entry, accepted)
           ok == one.ok
           calls == l.calls + Len(one.toots)
           sent == IF one.toots # <<>> THEN Append(l.sent, entry.ID) ELSE l.sent
           posted == IF ok THEN l.posted + 1 ELSE l.posted
           succeeded == IF ok THEN l.succeeded \cup {entry.ID} ELSE l.succeeded
       IN  /\ entries' = IF ok /\ ~l.dryRun
                       THEN MarkAsPosted(entries, entry.ID, clock).rows
                       ELSE entries
           /\ IF l.i < Len(l.entries)
              THEN /\ pc' = pc
                   /\ loc' = [loc EXCEPT ![p] =
                                  [cmd |-> "post", dryRun |-> l.dryRun,
                                   tmpl |-> l.tmpl,
                                   feed |-> l.feed, entries |-> l.entries,
                                   i |-> l.i + 1, posted |-> posted,
                                   succeeded |-> succeeded, calls |-> calls,
                                   sent |-> sent]]
              ELSE IF l.dryRun \/ posted = 0
              THEN /\ pc' = [pc EXCEPT ![p] = "done"]
                   /\ loc' = [loc EXCEPT ![p] =
                                  [cmd |-> "post", err |-> "none",
                                   dryRun |-> l.dryRun, entries |-> l.entries,
                                   posted |-> posted, succeeded |-> succeeded,
                                   marked |-> {}, calls |-> calls, sent |-> sent]]
              ELSE /\ pc' = [pc EXCEPT ![p] = "post_mark"]
                   /\ loc' = [loc EXCEPT ![p] =
                                  [cmd |-> "post", dryRun |-> l.dryRun,
                                   entries |-> l.entries, posted |-> posted,
                                   succeeded |-> succeeded, j |-> 1,
                                   marked |-> {}, calls |-> calls, sent |-> sent]]
    /\ UNCHANGED <<settings, clock, ret, everPosted, schema>>

\* One iteration of the loop of PostEntries: render, then dispatch.  What
\* the limit was taken from (cfg.MaxItems, the flag --posts) is not read
\* again once the batch is there, and is kept up to the first iteration only.
\* `succeeded` records the ids whose render and dispatch succeeded, `calls`
\* counts the calls of the client's PostStatus and `sent` lists the ids of
\* the entries they were made for.
PostEntry(p, accepted) ==
    /\ pc[p] = "post_entries"
    /\ LET l == loc[p]
           entry == l.entries[l.i]
           one == PostOne(l.tmpl, l.feed, l.dryRun, entry, accepted)
           ok == one.ok
           calls == l.calls + Len(one.toots)
           sent == IF one.toots # <<>> THEN Append(l.sent, entry.ID) ELSE l.sent
           posted == IF ok THEN l.posted + 1 ELSE l.posted
           succeeded == IF ok THEN l.succeeded \cup {entry.ID} ELSE l.succeeded
       IN  IF l.i < Len(l.entries)
           THEN /\ pc' = pc
                /\ loc' = [loc EXCEPT ![p] =
                               [cmd |-> "post", dryRun |-> l.dryRun,
                                tmpl |-> l.tmpl,
                                feed |-> l.feed, entries |-> l.entries,
                                i |-> l.i + 1, posted |-> posted,
                                succeeded |-> succeeded, calls |-> calls,
                                sent |-> sent]]
           ELSE IF l.dryRun \/ posted = 0
           THEN /\ pc' = [pc EXCEPT ![p] = "done"]
                /\ loc' = [loc EXCEPT ![p] =
                               [cmd |-> "post", err |-> "none",
                                dryRun |-> l.dryRun, entries |-> l.entries,
                                posted |-> posted, succeeded |-> succeeded,
                                marked |-> {}, calls |-> calls, sent |-> sent]]
           ELSE /\ pc' = [pc EXCEPT ![p] = "post_mark"]
                /\ loc' = [loc EXCEPT ![p] =
                               [cmd |-> "post", dryRun |-> l.dryRun,
                                entries |-> l.entries, posted |-> posted,
                                succeeded |-> succeeded, j |-> 1,
                                marked |-> {}, calls |-> calls, sent |-> sent]]
    /\ UNCHANGED <<entries, settings, clock, ret, everPosted, schema>>

\* Faulty variant: the error of MarkAsPosted is returned by the command.
PostMark_ReturnsMarkError(p) ==
    /\ pc[p] = "post_mark"
    /\ LET l == loc[p]
           id == l.entries[l.j].ID
           r == MarkAsPosted(entries, id, clock)
           marked == IF r.err = "none" THEN l.marked \cup {id} ELSE l.marked
       IN  /\ entries' = r.rows
           /\ everPosted' = IF r.err = "none" THEN everPosted \cup {id}
                            ELSE everPosted
           /\ IF l.j < l.posted /\ r.err = "none"
              THEN /\ pc' = pc
                   /\ loc' = [loc EXCEPT ![p].j = @ + 1, ![p].marked = marked]
              ELSE /\ pc' = [pc EXCEPT ![p] = "done"]
                   /\ loc' = [loc EXCEPT ![p] =
                                  [cmd |-> "post", err |-> r.err,
                                   dryRun |-> FALSE, entries |-> l.entries,
                                   posted |-> l.posted,
                                   succeeded |-> l.succeeded,
                                   marked |-> marked, calls |-> l.calls,
                                   sent |-> l.sent]]
    /\ UNCHANGED <<settings, clock, ret, schema>>

\* One iteration of the loop over entries[:posted] of runPost.
\* `marked` records the ids MarkAsPosted has accepted.
PostMark(p) ==
    /\ pc[p] = "post_mark"
    /\ LET l == loc[p]
           id == l.entries[l.j].ID
           r == MarkAsPosted(entries, id, clock)
           marked == IF r.err = "none" THEN l.marked \cup {id} ELSE l.marked
       IN  /\ entries' = r.rows
           /\ everPosted' = IF r.err = "none" THEN everPosted \cup {id}
                            ELSE everPosted
           /\ IF l.j < l.posted
              THEN /\ pc' = pc
                   /\ loc' = [loc EXCEPT ![p].j = @ + 1, ![p].marked = marked]
              ELSE /\ pc' = [pc EXCEPT ![p] = "done"]
                   /\ loc' = [loc EXCEPT ![p] =
                                  [cmd |-> "post", err |-> "none",
                                   dryRun |-> FALSE, entries |-> l.entries,
                                   posted |-> l.posted,
                                   succeeded |-> l.succeeded,
                                   marked |-> marked, calls |-> l.calls,
                                   sent |-> l.sent]]
    /\ UNCHANGED <<settings, clock, ret, schema>>

\* -- catchup ---------------------------------------------------------------

\* Faulty variant: the loop is entered whatever --dry-run is.
CatchupStart_IgnoresDryRun(p, dryRun) ==
    /\ pc[p] = "idle"
    /\ LET r == GetUnpostedEntries(entries, 0)
       IN  IF Len(r.entries) = 0
           THEN /\ pc' = [pc EXCEPT ![p] = "done"]
                /\ loc' = [loc EXCEPT ![p] =
                               [cmd |-> "catchup", err |-> "none",
                                dryRun |-> dryRun, entries |-> <<>>,
                                markedCount |-> 0, calls |-> 0]]
           ELSE /\ pc' = [pc EXCEPT ![p] = "catchup_mark"]
                /\ loc' = [loc EXCEPT ![p] =
                               [cmd |-> "catchup", dryRun |-> dryRun,
                                entries |-> AsEntries(r.entries),
                                j |-> 1, markedCount |-> 0, calls |-> 0]]
    /\ UNCHANGED <<entries, settings, clock, ret, everPosted, schema>>

\* runCatchup up to its loop: every unposted entry is read; a dry run, and a
\* run that finds no entry, end here.  The command builds no renderer and no
\* poster: its count of PostStatus calls stays 0.
CatchupStart(p, dryRun) ==
    /\ pc[p] = "idle"
    /\ LET r == GetUnpostedEntries(entries, 0)
       IN  IF Len(r.entries) = 0 \/ dryRun
           THEN /\ pc' = [pc EXCEPT ![p] = "done"]
                /\ loc' = [loc EXCEPT ![p] =
                               [cmd |-> "catchup", err |-> "none",
                                dryRun |-> dryRun,
                                entries |-> AsEntries(r.entries),
                                markedCount |-> 0, calls |-> 0]]
           ELSE /\ pc' = [pc EXCEPT ![p] = "catchup_mark"]
                /\ loc' = [loc EXCEPT ![p] =
                               [cmd |-> "catchup", dryRun |-> FALSE,
                                entries |-> AsEntries(r.entries),
                                j |-> 1, markedCount |-> 0, calls |-> 0]]
    /\ UNCHANGED <<entries, settings, clock, ret, everPosted, schema>>

\* One iteration of the loop of runCatchup.
CatchupMark(p) ==
    /\ pc[p] = "catchup_mark"
    /\ LET l == loc[p]
           id == l.entries[l.j].ID
           r == MarkAsPosted(entries, id, clock)
           markedCount == IF r.err = "none" THEN l.markedCount + 1
                          ELSE l.markedCount
       IN  /\ entries' = r.rows
           /\ everPosted' = IF r.err = "none" THEN everPosted \cup {id}
                            ELSE everPosted
           /\ IF l.j < Len(l.entries)
              THEN /\ pc' = pc
                   /\ loc' = [loc EXCEPT ![p].j = @ + 1,
                                         ![p].markedCount = markedCount]
              ELSE /\ pc' = [pc EXCEPT ![p] = "done"]
                   /\ loc' = [loc EXCEPT ![p] =
                                  [cmd |-> "catchup", err |-> "none",
                                   dryRun |-> FALSE, entries |-> l.entries,
                                   markedCount |-> markedCount,
                                   calls |-> l.calls]]
    /\ UNCHANGED <<settings, clock, ret, schema>>

\* -- status ----------------------------------------------------------------

\* SELECT MAX(fetched_at) FROM entries
GetLastFetchTime(rows) ==
    IF rows = <<>> THEN NULL
    ELSE <<MaxOf({ rows[i].fetched_at : i \in DOMAIN rows })>>

\* SELECT MAX(posted_at) FROM entries WHERE posted_at IS NOT NULL
GetLastPostTime(rows) ==
    LET times == { rows[i].posted_at[1] :
                       i \in { k \in DOMAIN rows : rows[k].posted_at # NULL } }
    IN  IF times = {} THEN NULL ELSE <<MaxOf(times)>>

\* runStatus: the statistics, the last fetch and post times, and the ids of
\* the next five entries to be posted are read and displayed.
StatusRun(p) ==
    /\ pc[p] = "idle"
    /\ LET stats == GetStats(entries)
           next == IF stats.unposted > 0
                   THEN GetAllEntryIDs(GetUnpostedEntries(entries, 5).entries)
                   ELSE <<>>
       IN  loc' = [loc EXCEPT ![p] =
                       [cmd |-> "status", err |-> "none",
                        total |-> stats.total, posted |-> stats.posted,
                        unposted |-> stats.unposted,
                        lastFetch |-> GetLastFetchTime(entries),
                        lastPost |-> GetLastPostTime(entries),
                        next |-> next]]
    /\ pc' = [pc EXCEPT ![p] = "done"]
    /\ UNCHANGED <<entries, settings, clock, ret, everPosted, schema>>

\* The process of a finished run exits.
Exit(p) ==
    /\ pc[p] = "done"
    /\ pc' = [pc EXCEPT ![p] = "idle"]
    /\ loc' = [loc EXCEPT ![p] = [cmd |-> "none"]]
    /\ UNCHANGED <<entries, settings, clock, ret, everPosted, schema>>

\* Command runs, one after the other, as time passes.
RunNext ==
    \/ Tick
    \/ \E p \in Procs :
          \/ \E cfg \in Configs : \E noPurge \in BOOLEAN :
                 FetchStart(p, cfg, noPurge)
          \/ \E feed \in Feeds \cup {NULL} : FetchFeed(p, feed)
          \/ FetchSaveEntry(p)
          \/ FetchStoreFeedMetadata(p)
          \/ FetchPurge(p)
          \/ FetchFinish(p)
          \/ \E cfg \in Configs : \E dryRun \in BOOLEAN : PostStart(p, cfg, dryRun)
          \/ \E flagChanged \in BOOLEAN :
             \E cfgMaxItems \in 0 .. MaxLimit :
             \E maxPosts \in (IF flagChanged THEN 0 .. MaxLimit ELSE {0}) :
             \E tmpl \in Templates :
                 PostRead(p, cfgMaxItems, flagChanged, maxPosts, tmpl)
          \/ \E accepted \in BOOLEAN : PostEntry(p, accepted)
          \/ PostMark(p)
          \/ \E dryRun \in BOOLEAN : CatchupStart(p, dryRun)
          \/ CatchupMark(p)
          \/ StatusRun(p)
          \/ Exit(p)

RunSpec == Init /\ [][RunNext]_vars

----------------------------------------------------------------------------
(* GenerateEntryID applied to the items a feed may hold *)

\* Items of every shape: with and without GUID, title, link, published
\* string and parsed publication date.
AllItems ==
    { Item(guid, title, link, published, parsed, NULL) :
          guid \in {"", "g1", "g2"}, title \in {"", "a", "ab"},
          link \in {"", "b", "l"}, published \in {"", "p"},
          parsed \in {NULL, <<1>>, <<2>>} }

GenerateEntryIDCall(item) ==
    /\ ret' = [op |-> "GenerateEntryID", arg |-> item, err |-> "none",
               val |-> GenerateEntryID(item)]
    /\ UNCHANGED <<entries, clock, settings, pc, loc, everPosted, schema>>

\* The published-date representation GenerateEntryID hashes: the raw string
\* of the feed, else the parsed date's String(), else the empty string.
PublishedStr(item) ==
    IF item.Published # "" THEN item.Published
    ELSE IF item.PublishedParsed # NULL
         THEN TimeString(item.PublishedParsed[1])
         ELSE ""

\* The function is called while the store fills and time passes.
IdNext ==
    \/ \E item \in AllItems : GenerateEntryIDCall(item)
    \/ \E id \in EntryIDs : \E data \in EntryBlobs(id) : SaveEntryCall(id, data)
    \/ Tick

IdSpec == Init /\ [][IdNext]_vars

----------------------------------------------------------------------------
(* Opening a database file again and again *)

\* database.New on the file; arg is the version the file had before.
NewCall ==
    LET r == New(schema)
    IN  /\ schema' = r.file
        /\ ret' = [op |-> "database.New", arg |-> GetMigrationVersion(schema),
                   err |-> r.err, val |-> r.appliedCount]
        /\ UNCHANGED <<entries, clock, settings, pc, loc, everPosted>>

\* A later version of the program, which defines further migrations, is
\* installed: new versions are added after the ones there are.  The new
\* program has made no call yet.
Upgrade(defined) ==
    /\ schema.defined \subseteq defined
    /\ schema.defined # defined
    /\ \A v \in defined \ schema.defined : v > MaxOf(schema.defined \cup {1})
    /\ schema' = [schema EXCEPT !.defined = defined,
                                !.applied = [v \in defined |->
                                                IF v \in schema.defined
                                                THEN schema.applied[v] ELSE 0]]
    /\ ret' = [op |-> "none", arg |-> NULL, err |-> "none", val |-> NULL]
    /\ UNCHANGED <<entries, clock, settings, pc, loc, everPosted>>

\* No file yet, or the file of a version of the program that had no
\* migrations: an entries table and no schema_migrations table.
MigInit ==
    /\ entries = <<>>
    /\ settings = {}
    /\ clock = 0
    /\ ret = [op |-> "none", arg |-> NULL, err |-> "none", val |-> NULL]
    /\ pc = [p \in Procs |-> "idle"]
    /\ loc = [p \in Procs |-> [cmd |-> "none"]]
    /\ everPosted = {}
    /\ schema \in { NewFile(defined, tables) :
                        defined \in MigrationSets, tables \in {{}, {"entries"}} }

MigNext ==
    \/ NewCall
    \/ \E defined \in MigrationSets : Upgrade(defined)
    \/ /\ "entries" \in schema.tables
       /\ \E id \in EntryIDs : \E data \in EntryBlobs(id) : SaveEntryCall(id, data)
    \/ Tick

MigSpec == MigInit /\ [][MigNext]_vars

----------------------------------------------------------------------------
(* Two processes that open the same new database file *)

\* The processes: two commands started at about the same time.
OpenProcs == { "p1", "p2" }

\* database.New statement by statement, as a process p runs it: every Exec
\* and QueryRow is a statement of its own on the file, and the statements of
\* the other process may come between any two of them.

\* InitSchema: CREATE TABLE IF NOT EXISTS entries ... and its indexes.
OpenInitSchema(p) ==
    /\ pc[p] = "idle"
    /\ schema' = InitSchema(schema)
    /\ pc' = [pc EXCEPT ![p] = "open_table"]
    /\ loc' = [loc EXCEPT ![p] = [cmd |-> "open"]]
    /\ UNCHANGED <<entries, settings, clock, ret, everPosted>>

\* RunMigrations: CREATE TABLE IF NOT EXISTS schema_migrations ...
OpenCreateMigrationsTable(p) ==
    /\ pc[p] = "open_table"
    /\ schema' = [schema EXCEPT !.tables = @ \cup {"schema_migrations"}]
    /\ pc' = [pc EXCEPT ![p] = "open_version"]
    /\ UNCHANGED <<entries, settings, clock, ret, loc, everPosted>>

\* Where RunMigrations goes on once currentVersion is known: it returns
\* when no migration is needed, or enters its loop at the next version.
AfterVersion(p, currentVersion) ==
    LET maxVersion == MaxOf(schema.defined \cup {1})
    IN  IF currentVersion >= maxVersion
        THEN /\ pc' = [pc EXCEPT ![p] = "done"]
             /\ loc' = [loc EXCEPT ![p] = [cmd |-> "open", err |-> "none"]]
        ELSE /\ pc' = [pc EXCEPT ![p] = "open_apply"]
             /\ loc' = [loc EXCEPT ![p] = [cmd |-> "open",
                                           version |-> currentVersion + 1]]

\* currentVersion, err := db.GetMigrationVersion()
OpenGetVersion(p) ==
    /\ pc[p] = "open_version"
    /\ LET currentVersion == GetMigrationVersion(schema)
       IN  IF currentVersion = 0
           THEN /\ pc' = [pc EXCEPT ![p] = "open_initial"]
                /\ loc' = loc
           ELSE AfterVersion(p, currentVersion)
    /\ UNCHANGED <<entries, settings, clock, ret, schema, everPosted>>

\* currentVersion = 0: the entries table is found in sqlite_master and
\* version 1 is recorded with INSERT INTO schema_migrations.
OpenRecordInitial(p) ==
    /\ pc[p] = "open_initial"
    /\ LET r == IF "entries" \in schema.tables
                THEN RecordVersion(schema, 1)
                ELSE [file |-> schema, err |-> "none"]
       IN  /\ schema' = r.file
           /\ IF r.err # "none"
              THEN /\ pc' = [pc EXCEPT ![p] = "done"]
                   /\ loc' = [loc EXCEPT ![p] =
                                  [cmd |-> "open",
                                   err |-> "failed to record initial schema version"]]
              ELSE AfterVersion(p, IF "entries" \in schema.tables THEN 1 ELSE 0)
    /\ UNCHANGED <<entries, settings, clock, ret, everPosted>>

\* The loop of RunMigrations at loc[p].version, and in ApplyMigration the
\* execution of the script.
OpenExecuteMigration(p) ==
    /\ pc[p] = "open_apply"
    /\ LET version == loc[p].version
       IN  IF version \in schema.defined
           THEN /\ schema' = ExecuteMigration(schema, version)
                /\ pc' = [pc EXCEPT ![p] = "open_record"]
                /\ loc' = loc
           ELSE /\ schema' = schema
                /\ AfterVersion(p, version)
    /\ UNCHANGED <<entries, settings, clock, ret, everPosted>>

\* ApplyMigration: the INSERT INTO schema_migrations of the version.
OpenRecordMigration(p) ==
    /\ pc[p] = "open_record"
    /\ LET version == loc[p].version
           r == RecordVersion(schema, version)
       IN  /\ schema' = r.file
           /\ IF r.err # "none"
              THEN /\ pc' = [pc EXCEPT ![p] = "done"]
                   /\ loc' = [loc EXCEPT ![p] =
                                  [cmd |-> "open",
                                   err |-> "failed to record migration"]]
              ELSE AfterVersion(p, version)
    /\ UNCHANGED <<entries, settings, clock, ret, everPosted>>

\* A file that does not exist yet, and no process running.
OpenInit ==
    /\ entries = <<>>
    /\ settings = {}
    /\ clock = 0
    /\ ret = [op |-> "none", arg |-> NULL, err |-> "none", val |-> NULL]
    /\ pc = [p \in OpenProcs |-> "idle"]
    /\ loc = [p \in OpenProcs |-> [cmd |-> "none"]]
    /\ everPosted = {}
    /\ schema \in { NewFile(defined, {}) : defined \in MigrationSets }

OpenNext ==
    \E p \in OpenProcs :
        \/ OpenInitSchema(p)
        \/ OpenCreateMigrationsTable(p)
        \/ OpenGetVersion(p)
        \/ OpenRecordInitial(p)
        \/ OpenExecuteMigration(p)
        \/ OpenRecordMigration(p)
        \/ Exit(p)

OpenSpec == OpenInit /\ [][OpenNext]_vars

----------------------------------------------------------------------------
(* Post runs, one after the other, on a backlog *)

\* The database file after a fetch run has saved the items of a feed, and
\* the configuration file every run loads: its template and its cap
\* (maxItems > 0).  `ret` holds what LoadConfig returns.
DrainInit ==
    /\ \E feed \in Feeds :
          /\ entries = SaveEntriesToDB(<<>>, feed, 0,
                                       NoFaults(feed[1].Items)).rows
          /\ settings = SetSetting({}, "feed_metadata", MarshalFeed(feed[1]))
    /\ clock = 0
    /\ \E tmpl \in Templates : \E n \in 1 .. MaxLimit :
          ret = [op |-> "LoadConfig", arg |-> NULL, err |-> "none",
                 val |-> [TemplateFile |-> tmpl, MaxItems |-> n]]
    /\ pc = [p \in Procs |-> "idle"]
    /\ loc = [p \in Procs |-> [cmd |-> "none"]]
    /\ everPosted = {}
    /\ schema = New(NewFile({2}, {})).file

\* The steps of post runs that are no dry runs, with the configured cap and
\* template, against a server that accepts every status.
DrainNext ==
    \E p \in Procs :
        \/ PostStart(p, ValidConfig, FALSE)
        \/ PostRead(p, ret.val.MaxItems, FALSE, 0, ret.val.TemplateFile)
        \/ PostEntry(p, TRUE)
        \/ PostMark(p)
        \/ Exit(p)

\* The command is run again and again (by cron, say), and a run that has
\* started goes on to its end.
DrainSpec == DrainInit /\ [][DrainNext]_vars /\ WF_vars(DrainNext)

----------------------------------------------------------------------------
(* The settings table as its callers use it *)

\* The keys the program uses, and values of a setting.
SettingKeys == { "feed_metadata", "mastodon_access_token" }
SettingValues == { "", "a", "b" }

\* SetSetting(key, value); val is what GetSetting(key) gave before the call.
SetSettingCall(key, value) ==
    /\ settings' = SetSetting(settings, key, value)
    /\ ret' = [op |-> "SetSetting", arg |-> <<key, value>>, err |-> "none",
               val |-> GetSetting(settings, key)]
    /\ UNCHANGED <<entries, clock, pc, loc, everPosted, schema>>

GetSettingCall(key) ==
    /\ ret' = [op |-> "GetSetting", arg |-> <<key>>, err |-> "none",
               val |-> GetSetting(settings, key)]
    /\ UNCHANGED <<entries, settings, clock, pc, loc, everPosted, schema>>

SettingsNext ==
    \/ \E key \in SettingKeys : \E value \in SettingValues :
           SetSettingCall(key, value)
    \/ \E key \in SettingKeys : GetSettingCall(key)
    \/ Tick

SettingsSpec == Init /\ [][SettingsNext]_vars

----------------------------------------------------------------------------
(* Two post commands started against the same database file *)

\* The two processes: two invocations of the post command, such as a
\* scheduled run that starts while the run before it is still posting.
\* Nothing in runPost keeps the second from opening the file the first has
\* opened.
PostProcs == { "p1", "p2" }

\* The database file after a fetch run has saved the items of a feed and
\* stored its metadata; no command is running.
OverlapInit ==
    /\ \E feed \in Feeds :
          /\ entries = SaveEntriesToDB(<<>>, feed, 0,
                                       NoFaults(feed[1].Items)).rows
          /\ settings = SetSetting({}, "feed_metadata", MarshalFeed(feed[1]))
    /\ clock = 0
    /\ ret = [op |-> "New", arg |-> NULL, err |-> "none", val |-> NULL]
    /\ pc = [p \in PostProcs |-> "idle"]
    /\ loc = [p \in PostProcs |-> [cmd |-> "none"]]
    /\ everPosted = {}
    /\ schema = New(NewFile({2}, {})).file

\* The steps of the two runs, interleaved in any order: each run is a post
\* that is no dry run, with a valid configuration, the title template and
\* the limit of the configuration.
OverlapNext ==
    \E p \in PostProcs :
        \/ PostStart(p, ValidConfig, FALSE)
        \/ \E cfgMaxItems \in 0 .. MaxLimit :
               PostRead(p, cfgMaxItems, FALSE, 0, "title")
        \/ \E accepted \in BOOLEAN : PostEntry(p, accepted)
        \/ PostMark(p)
        \/ Exit(p)

OverlapSpec == OverlapInit /\ [][OverlapNext]_vars

----------------------------------------------------------------------------
(* GetStats while another process writes to the database file *)

\* GetStats query by query, as the process p that displays the statistics
\* runs it: db.conn is a connection pool without a transaction around the
\* three QueryRow calls, so that what another process commits between two of
\* them is seen by the later one.
GetStatsTotal(p) ==
    /\ pc[p] = "idle"
    /\ pc' = [pc EXCEPT ![p] = "stats_posted"]
    /\ loc' = [loc EXCEPT ![p] = [cmd |-> "stats", total |-> CountTotal(entries)]]
    /\ UNCHANGED <<entries, settings, clock, ret, everPosted, schema>>

GetStatsPosted(p) ==
    /\ pc[p] = "stats_posted"
    /\ pc' = [pc EXCEPT ![p] = "stats_unposted"]
    /\ loc' = [loc EXCEPT ![p] = [cmd |-> "stats", total |-> loc[p].total,
                                   posted |-> CountPosted(entries)]]
    /\ UNCHANGED <<entries, settings, clock, ret, everPosted, schema>>

GetStatsUnposted(p) ==
    /\ pc[p] = "stats_unposted"
    /\ pc' = [pc EXCEPT ![p] = "done"]
    /\ loc' = [loc EXCEPT ![p] = [cmd |-> "stats", err |-> "none",
                                   total |-> loc[p].total,
                                   posted |-> loc[p].posted,
                                   unposted |-> CountUnposted(entries)]]
    /\ UNCHANGED <<entries, settings, clock, ret, everPosted, schema>>

\* One process reads the statistics while the calls of another process
\* (a fetch run saving and purging, a post run marking) are committed.
StatsNext ==
    \/ \E id \in EntryIDs : \E data \in EntryBlobs(id) : SaveEntryCall(id, data)
    \/ \E id \in EntryIDs : MarkAsPostedCall(id)
    \/ \E id \in EntryIDs : DeleteEntriesCall(<<id>>)
    \/ \E p \in Procs :
          \/ GetStatsTotal(p)
          \/ GetStatsPosted(p)
          \/ GetStatsUnposted(p)
          \/ Exit(p)

StatsSpec == Init /\ [][StatsNext]_vars

----------------------------------------------------------------------------
(* Post and catch-up runs while a fetch run of another process purges *)

\* The database file after a fetch run has saved the items of a feed and
\* stored its metadata; no command is running.
MarkInit ==
    /\ \E feed \in Feeds :
          /\ entries = SaveEntriesToDB(<<>>, feed, 0,
                                       NoFaults(feed[1].Items)).rows
          /\ settings = SetSetting({}, "feed_metadata", MarshalFeed(feed[1]))
    /\ clock = 0
    /\ ret = [op |-> "New", arg |-> NULL, err |-> "none", val |-> NULL]
    /\ pc = [p \in Procs |-> "idle"]
    /\ loc = [p \in Procs |-> [cmd |-> "none"]]
    /\ everPosted = {}
    /\ schema = New(NewFile({2}, {})).file

\* The steps of post and catch-up runs that are no dry runs, and between
\* them the purge of a fetch run that another process has got to.
MarkNext ==
    \/ \E feed \in Feeds : PurgeStaleEntriesCall(feed)
    \/ \E p \in Procs :
          \/ PostStart(p, ValidConfig, FALSE)
          \/ \E tmpl \in Templates : PostRead(p, 0, FALSE, 0, tmpl)
          \/ \E accepted \in BOOLEAN : PostEntry(p, accepted)
          \/ PostMark(p)
          \/ CatchupStart(p, FALSE)
          \/ CatchupMark(p)
          \/ Exit(p)

MarkSpec == MarkInit /\ [][MarkNext]_vars

----------------------------------------------------------------------------
(* Post runs that may be interrupted *)

\* The process p is ended from outside (a signal, a power cut) at the
\* statement it is at; `at` keeps where it was, and what it had dispatched.
Interrupt(p) ==
    /\ pc[p] \in { "post_read", "post_entries", "post_mark" }
    /\ pc' = [pc EXCEPT ![p] = "interrupted"]
    /\ loc' = [loc EXCEPT ![p] =
                   [cmd |-> "post", at |-> pc[p],
                    sent |-> IF pc[p] = "post_read" THEN <<>> ELSE loc[p].sent]]
    /\ UNCHANGED <<entries, settings, clock, ret, everPosted, schema>>

\* The command is started again after an interruption.
Restart(p) ==
    /\ pc[p] = "interrupted"
    /\ pc' = [pc EXCEPT ![p] = "idle"]
    /\ loc' = [loc EXCEPT ![p] = [cmd |-> "none"]]
    /\ UNCHANGED <<entries, settings, clock, ret, everPosted, schema>>

\* Post runs that are no dry runs on the entries of a feed, each of which
\* may be interrupted at any statement.
InterruptNext ==
    \/ Tick
    \/ \E p \in Procs :
          \/ PostStart(p, ValidConfig, FALSE)
          \/ \E cfgMaxItems \in 0 .. MaxLimit : \E tmpl \in Templates :
                 PostRead(p, cfgMaxItems, FALSE, 0, tmpl)
          \/ \E accepted \in BOOLEAN : PostEntry(p, accepted)
          \/ PostMark(p)
          \/ Interrupt(p)
          \/ Restart(p)
          \/ Exit(p)

InterruptSpec == MarkInit /\ [][InterruptNext]_vars

----------------------------------------------------------------------------
(* Properties of the store and fetcher API (specification Spec) *)

UnpostedIds(rows) == { rows[i].id : i \in { j \in DOMAIN rows : rows[j].posted_at = NULL } }

RowsWithId(rows, id) == { i \in DOMAIN rows : rows[i].id = id }

SeqToSet(s) == { s[i] : i \in DOMAIN s }

\* C1: in every store state, SaveEntry(id, data) on an id that is already
\* stored returns no error, leaves exactly one row with that id, and that row
\* keeps the fetched_at of the call that created it.
C1_SaveEntryExistingIsNoOp ==
    \A id \in IdsOf(entries) : \A data \in EntryBlobs(id) :
        LET r == SaveEntry(entries, id, data, clock)
        IN  /\ r.err = "none"
            /\ Cardinality(RowsWithId(r.rows, id)) = 1
            /\ RowOf(r.rows, id).fetched_at = RowOf(entries, id).fetched_at

\* A second SaveEntry of a stored id, with another blob and in a later second,
\* has returned.
C1_Witness ==
    /\ ret.op = "SaveEntry"
    /\ ret.err = "none"
    /\ ret.arg[1] \in IdsOf(entries)
    /\ RowOf(entries, ret.arg[1]).entry_data # ret.arg[2]
    /\ RowOf(entries, ret.arg[1]).fetched_at < clock

\* C5 (as stated): once posted_at of an entry is non-null, no later step
\* changes it, a repeated MarkAsPosted of the same id included.
C5_PostedAtWrittenOnce ==
    [][\A i \in DOMAIN entries : \A j \in DOMAIN entries' :
          (entries[i].posted_at # NULL /\ entries'[j].id = entries[i].id)
              => entries'[j].posted_at = entries[i].posted_at
      ]_vars

\* C6: in every store state, GetUnpostedEntries(0) returns the unposted
\* entries in ascending order of fetched_at, and entries saved one after the
\* other in the order in which they were saved.
C6_UnpostedOldestFirst ==
    LET got == GetUnpostedEntries(entries, 0).entries
    IN  /\ \A i, j \in DOMAIN got : i < j => got[i].fetched_at <= got[j].fetched_at
        /\ got = SelectSeq(entries, IsUnposted)

\* Three unposted entries, saved in two different seconds, were returned.
C6_Witness ==
    /\ ret.op = "GetUnpostedEntries"
    /\ Len(ret.val.ids) = 3
    /\ RowOf(entries, ret.val.ids[1]).fetched_at
           < RowOf(entries, ret.val.ids[3]).fetched_at

\* C7: in every store state, GetUnpostedEntries(limit) returns without error
\* a list that is never nil; for limit > 0 it holds min(limit, number of
\* unposted entries) entries and no unposted entry left out is older than one
\* returned; for limit <= 0 it holds every unposted entry.
C7_LimitClamp ==
    \A limit \in -1 .. MaxLimit :
        LET r == GetUnpostedEntries(entries, limit)
            ids == SeqToSet(GetAllEntryIDs(r.entries))
            unposted == UnpostedIds(entries)
            n == Cardinality(unposted)
        IN  /\ r.err = "none"
            /\ r.isNil = FALSE
            /\ ids \subseteq unposted
            /\ Cardinality(ids) = Len(r.entries)
            /\ Len(r.entries) = IF limit > 0 /\ limit < n THEN limit ELSE n
            /\ \A a \in ids : \A b \in unposted \ ids :
                   RowOf(entries, a).fetched_at <= RowOf(entries, b).fetched_at

\* A call with 0 < limit < number of unposted entries returned limit entries,
\* and left out an entry that is strictly newer than one it returned.
C7_Witness ==
    /\ ret.op = "GetUnpostedEntries"
    /\ Len(ret.val.ids) = 2
    /\ Cardinality(UnpostedIds(entries)) = 3
    /\ \E b \in UnpostedIds(entries) \ SeqToSet(ret.val.ids) :
           RowOf(entries, ret.val.ids[1]).fetched_at < RowOf(entries, b).fetched_at

\* C8: in every store state, GetUnpostedEntries(0) returns exactly the
\* entries whose posted_at is null, each once; MarkAsPosted(id) of a stored
\* id succeeds, removes id from that result and nothing else.
C8_PostedExcluded ==
    LET before == GetUnpostedEntries(entries, 0).entries
    IN  /\ SeqToSet(GetAllEntryIDs(before)) = UnpostedIds(entries)
        /\ Cardinality(UnpostedIds(entries)) = Len(before)
        /\ \A id \in IdsOf(entries) :
               LET m == MarkAsPosted(entries, id, clock)
                   after == GetUnpostedEntries(m.rows, 0).entries
                   NotId(row) == row.id # id
               IN  /\ m.err = "none"
                   /\ id \notin IdsOf(after)
                   /\ after = SelectSeq(before, NotId)

\* With A, B, C stored in this order and B posted, the call returned [A, C].
C8_Witness ==
    /\ ret.op = "GetUnpostedEntries"
    /\ Len(entries) = 3
    /\ entries[2].posted_at # NULL
    /\ ret.val.ids = <<entries[1].id, entries[3].id>>

\* C9: in every store state and for every non-nil feed, PurgeStaleEntries
\* keeps exactly the rows whose id is the identifier of an item of the feed,
\* unchanged and in their order, deletes every other row, and returns the
\* number of rows it deleted.
C9_PurgeDeletesStale ==
    \A feed \in Feeds :
        LET r == PurgeStaleEntries(entries, feed)
            live == { GenerateEntryID(feed[1].Items[i]) : i \in DOMAIN feed[1].Items }
            Live(row) == row.id \in live
        IN  /\ r.rows = SelectSeq(entries, Live)
            /\ r.err = "none"
            /\ r.n = Len(entries) - Len(r.rows)

\* A purge deleted two entries and kept a third one, whose item has no GUID.
C9_Witness ==
    /\ ret.op = "PurgeStaleEntries"
    /\ ret.err = "none"
    /\ ret.val = 2
    /\ Len(entries) = 1
    /\ entries[1].id \notin { "g1", "g2" }

\* C10: in every store state, PurgeStaleEntries with a nil feed returns an
\* error and leaves the table as it was.
C10_PurgeNilFeed ==
    LET r == PurgeStaleEntries(entries, NULL)
    IN  /\ r.err # "none"
        /\ r.rows = entries

\* A purge with a nil feed has failed on a table that holds entries.
C10_Witness ==
    /\ ret.op = "PurgeStaleEntries"
    /\ ret.err = "feed is nil"
    /\ Len(entries) >= 2

----------------------------------------------------------------------------
(* Properties of the command runs (specification RunSpec) *)

PostRunDone(p) ==
    /\ pc[p] = "done"
    /\ loc[p].cmd = "post"
    /\ loc[p].dryRun = FALSE

BatchIds(p) == { loc[p].entries[i].ID : i \in DOMAIN loc[p].entries }

\* C2 (as stated): when a post run that is no dry run ends, the entries it
\* has marked posted are exactly the entries of its batch whose render and
\* dispatch succeeded.
C2_MarksExactlySucceeded ==
    \A p \in Procs : PostRunDone(p) => loc[p].marked = loc[p].succeeded

\* C3 (as stated): when a post run that is no dry run ends, every entry of
\* its batch whose render or dispatch failed is still stored with posted_at
\* null, so that the next run reads it again.
C3_FailedStaysUnposted ==
    \A p \in Procs :
        PostRunDone(p) =>
            \A id \in BatchIds(p) \ loc[p].succeeded :
                id \in UnpostedIds(entries)

\* C4 (as stated): an id that a run has marked posted is never again the id
\* of an unposted entry, whatever fetch, post and catch-up runs follow.
C4_PostedNeverUnposted ==
    \A id \in everPosted : id \notin UnpostedIds(entries)

\* C4 (amended): an entry that is marked posted stays marked posted for as
\* long as its row is stored: no step of a fetch, post or catch-up run turns
\* a posted entry into an unposted one.
C4_PostedStaysPostedWhileStored ==
    [][\A i \in DOMAIN entries : \A j \in DOMAIN entries' :
          (entries[i].posted_at # NULL /\ entries'[j].id = entries[i].id)
              => entries'[j].posted_at # NULL
      ]_vars

\* A fetch run with purge has ended whose feed holds the item of an entry
\* marked posted earlier: the entry was saved again, was not purged while the
\* run purged another entry, and is still posted.
C4_Witness ==
    \E p \in Procs :
        /\ pc[p] = "done"
        /\ loc[p].cmd = "fetch"
        /\ loc[p].err = "none"
        /\ loc[p].noPurge = FALSE
        /\ loc[p].purged > 0
        /\ \E id \in everPosted \cap FeedIDs(loc[p].feed[1].Items) :
               /\ id \in IdsOf(entries)
               /\ RowOf(entries, id).posted_at # NULL

\* The texts a template renders from the items, and the empty text.
Contents == { "", "a", "n" }

\* C11: Post(content, dryRun = true) hands no toot to the posting client and
\* returns success, for every content, the empty one included and whatever
\* the server would answer; a post run with --dry-run has called the client
\* for no entry and has counted every entry it rendered.
C11_DryRunPostNoCall ==
    /\ \A content \in Contents : \A accepted \in BOOLEAN :
           Post(content, TRUE, accepted) = [err |-> "none", toots |-> <<>>]
    /\ \A p \in Procs :
           (pc[p] \in {"post_entries", "done"} /\ loc[p].cmd = "post"
                /\ loc[p].dryRun)
               => /\ loc[p].calls = 0
                  /\ loc[p].posted = Cardinality(loc[p].succeeded)

\* A post run with --dry-run has ended after Post succeeded for two entries.
C11_Witness ==
    \E p \in Procs :
        /\ pc[p] = "done"
        /\ loc[p].cmd = "post"
        /\ loc[p].dryRun
        /\ loc[p].posted = 2
        /\ loc[p].calls = 0

\* The step starts, continues or ends a post or catch-up run with --dry-run.
InDryRun(p) ==
    /\ loc[p].cmd \in {"post", "catchup"}
    /\ loc[p].dryRun

\* C12: no step taken from the start to the end of a post run or a catch-up
\* run with --dry-run changes the table of entries: every posted_at, and so
\* the posted and unposted counts of GetStats, are the same before and after
\* the run.
C12_DryRunLeavesStore ==
    [][\A p \in Procs :
          InDryRun(p)' =>
              /\ entries' = entries
              /\ GetStats(entries') = GetStats(entries)
      ]_vars

\* A catch-up run with --dry-run has ended that reported two entries, and
\* both are still unposted beside an entry that is posted.
C12_Witness ==
    \E p \in Procs :
        /\ pc[p] = "done"
        /\ loc[p].cmd = "catchup"
        /\ loc[p].dryRun
        /\ Len(loc[p].entries) = 2
        /\ GetStats(entries).unposted = 2
        /\ GetStats(entries).posted = 1

\* C13: in every store state, for every template, dry-run flag and answers
\* of the server, PostEntries on the unposted entries renders every entry of
\* the batch in the order given, whichever of them fail, returns the number
\* of entries whose render and dispatch both succeeded, and returns no error.
C13_PostEntriesContinues ==
    LET batch == AsEntries(GetUnpostedEntries(entries, 0).entries)
    IN  \A tmpl \in Templates : \A dryRun \in BOOLEAN : \A answers \in Answers :
            LET r == PostEntries(batch, tmpl, NULL, dryRun, answers)
                good == { k \in DOMAIN batch :
                            /\ Render(tmpl, NULL, batch[k].EntryData).err = "none"
                            /\ dryRun \/ answers[k] }
            IN  /\ r.err = "none"
                /\ r.attempted = [k \in DOMAIN batch |-> batch[k].ID]
                /\ r.posted = Cardinality(good)

\* PostEntries has returned 1 for a batch of at least two entries whose first
\* entry holds a blob that is no JSON document.
C13_Witness ==
    /\ ret.op = "PostEntries"
    /\ ret.err = "none"
    /\ Len(ret.val.attempted) >= 2
    /\ RowOf(entries, ret.val.attempted[1]).entry_data = Corrupt
    /\ ret.val.posted = 1

\* C14: when a catch-up run without --dry-run ends, every entry it read as
\* unposted is stored with posted_at set, it has counted each of them,
\* GetUnpostedEntries(0) returns no entry, and from its start to its end the
\* run has not called the posting client.
C14_CatchupMarksAll ==
    \A p \in Procs :
        /\ (pc[p] \in {"catchup_mark", "done"} /\ loc[p].cmd = "catchup")
               => loc[p].calls = 0
        /\ (pc[p] = "done" /\ loc[p].cmd = "catchup" /\ ~loc[p].dryRun)
               => /\ GetUnpostedEntries(entries, 0).entries = <<>>
                  /\ loc[p].markedCount = Len(loc[p].entries)
                  /\ \A id \in BatchIds(p) :
                         /\ id \in IdsOf(entries)
                         /\ RowOf(entries, id).posted_at # NULL

\* A catch-up run has marked two entries in a store that held a posted entry
\* before it.
C14_Witness ==
    \E p \in Procs :
        /\ pc[p] = "done"
        /\ loc[p].cmd = "catchup"
        /\ ~loc[p].dryRun
        /\ loc[p].markedCount = 2
        /\ GetStats(entries).posted = 3

FetchRunDone(p) ==
    /\ pc[p] = "done"
    /\ loc[p].cmd = "fetch"
    /\ loc[p].err = "none"

\* C15: in the state a fetch run ends in, a second fetch of the same feed
\* snapshot with the same flags, in the same or a later second, purges
\* nothing and leaves the table of entries as it is: the same rows, each
\* with the id, fetched_at and posted_at it had.
C15_SecondFetchChangesNothing ==
    \A p \in Procs :
        FetchRunDone(p) =>
            \A now \in {clock, clock + 1} :
                LET r == FetchAndPurge(entries, loc[p].feed, loc[p].noPurge, now)
                IN  /\ r.rows = entries
                    /\ r.purged = 0

\* A fetch run with purge has ended that found both items of its snapshot
\* stored, one of them posted, in an earlier second: it added and purged
\* nothing.
C15_Witness ==
    \E p \in Procs :
        /\ FetchRunDone(p)
        /\ ~loc[p].noPurge
        /\ loc[p].newEntries = 0
        /\ loc[p].purged = 0
        /\ Len(entries) = 2
        /\ FeedIDs(loc[p].feed[1].Items) = IdsOf(entries)
        /\ \A i \in DOMAIN entries : entries[i].fetched_at < clock
        /\ \E i \in DOMAIN entries : entries[i].posted_at # NULL

\* C16: in every store state, reached by any sequence of SaveEntry,
\* MarkAsPosted, delete and purge calls, GetStats returns without error the
\* number of rows as total, the number of rows with non-null posted_at as
\* posted and the number of rows with null posted_at as unposted, and
\* total = posted + unposted.
C16_StatsAddUp ==
    LET r == GetStats(entries)
    IN  /\ r.err = "none"
        /\ r.total = Cardinality(DOMAIN entries)
        /\ r.posted = Cardinality({ i \in DOMAIN entries : entries[i].posted_at # NULL })
        /\ r.unposted = Cardinality({ i \in DOMAIN entries : entries[i].posted_at = NULL })
        /\ r.total = r.posted + r.unposted

\* GetStats has returned total 3, posted 1, unposted 2.
C16_Witness ==
    /\ ret.op = "GetStats"
    /\ ret.val = [total |-> 3, posted |-> 1, unposted |-> 2]

\* C17: in every store state, MarkAsPosted(id) for an id that is not stored
\* returns the error "entry not found" and leaves every row as it is.
C17_MarkUnknownFails ==
    \A id \in EntryIDs \ IdsOf(entries) :
        LET r == MarkAsPosted(entries, id, clock)
        IN  /\ r.err = "entry not found"
            /\ r.rows = entries

\* MarkAsPosted has failed for an id that is not among the two stored
\* entries, one posted and one unposted.
C17_Witness ==
    /\ ret.op = "MarkAsPosted"
    /\ ret.err = "entry not found"
    /\ Len(entries) = 2
    /\ GetStats(entries).posted = 1

\* C18: in every store state, SaveEntry(id, data) for an id that is not
\* stored returns no error and adds exactly one row: its id is id, its
\* entry_data is data, its posted_at is null and its fetched_at is the time
\* of the call; the rows stored before are as they were.
C18_SaveNewEntry ==
    \A id \in EntryIDs \ IdsOf(entries) : \A data \in EntryBlobs(id) :
        LET r == SaveEntry(entries, id, data, clock)
        IN  /\ r.err = "none"
            /\ Len(r.rows) = Len(entries) + 1
            /\ SubSeq(r.rows, 1, Len(entries)) = entries
            /\ Cardinality(RowsWithId(r.rows, id)) = 1
            /\ RowOf(r.rows, id).entry_data = data
            /\ RowOf(r.rows, id).posted_at = NULL
            /\ RowOf(r.rows, id).fetched_at = clock
            /\ id \in UnpostedIds(r.rows)

\* SaveEntry has just added, in second 1, a third entry to a store that
\* holds a posted entry.
C18_Witness ==
    /\ ret.op = "SaveEntry"
    /\ Len(entries) = 3
    /\ entries[3].id = ret.arg[1]
    /\ entries[3].entry_data = ret.arg[2]
    /\ entries[3].fetched_at = 1
    /\ entries[3].posted_at = NULL
    /\ clock = 1
    /\ entries[1].posted_at # NULL

\* C19: in every store state, SaveEntry(id, data) for an id whose entry has
\* posted_at set returns no error and leaves the posted_at and the
\* entry_data of that entry as they were: the entry stays posted.
C19_SavePostedKeepsPosted ==
    \A id \in IdsOf(entries) \ UnpostedIds(entries) : \A data \in EntryBlobs(id) :
        LET r == SaveEntry(entries, id, data, clock)
        IN  /\ r.err = "none"
            /\ RowOf(r.rows, id).posted_at = RowOf(entries, id).posted_at
            /\ RowOf(r.rows, id).entry_data = RowOf(entries, id).entry_data
            /\ id \notin UnpostedIds(r.rows)

\* SaveEntry has returned for a posted entry, with a blob that is not the
\* one stored, in a second after the one it was posted in.
C19_Witness ==
    /\ ret.op = "SaveEntry"
    /\ ret.arg[1] \in IdsOf(entries)
    /\ RowOf(entries, ret.arg[1]).posted_at = <<0>>
    /\ RowOf(entries, ret.arg[1]).entry_data # ret.arg[2]
    /\ clock = 1

----------------------------------------------------------------------------
(* Properties of GenerateEntryID (specification IdSpec) *)

\* C20: for every item with a non-empty GUID, GenerateEntryID returns the
\* GUID, whatever title, link, published string and parsed date the item has.
C20_GuidVerbatim ==
    /\ \A item \in AllItems :
           item.GUID # "" => GenerateEntryID(item) = item.GUID
    /\ (ret.op = "GenerateEntryID" /\ ret.arg.GUID # "")
           => ret.val = ret.arg.GUID

\* GenerateEntryID has returned "g1" for an item with GUID "g1" that has a
\* title, a link, a published string and a parsed date.
C20_Witness ==
    /\ ret.op = "GenerateEntryID"
    /\ ret.val = "g1"
    /\ ret.arg.Title = "ab"
    /\ ret.arg.Link = "l"
    /\ ret.arg.Published = "p"
    /\ ret.arg.PublishedParsed = <<2>>

\* C21: GenerateEntryID depends on the item alone: whatever the store holds
\* and whatever the time is, the identifier a call has returned is the one of
\* every item with the same GUID, title, link and published-date
\* representation; and two items without GUID that differ in exactly one of
\* title, link and published-date representation have different identifiers.
SameIdentityFields(i, j) ==
    /\ i.GUID = j.GUID
    /\ i.Title = j.Title
    /\ i.Link = j.Link
    /\ PublishedStr(i) = PublishedStr(j)

DifferInOneField(i, j) ==
    Cardinality({ f \in {"Title", "Link", "Published"} :
                      CASE f = "Title" -> i.Title # j.Title
                        [] f = "Link" -> i.Link # j.Link
                        [] f = "Published" -> PublishedStr(i) # PublishedStr(j) }) = 1

C21_IdentityPure ==
    /\ ret.op = "GenerateEntryID" =>
           \A j \in AllItems :
               SameIdentityFields(ret.arg, j) => GenerateEntryID(j) = ret.val
    /\ (ret.op = "GenerateEntryID" /\ ret.arg.GUID = "") =>
           \A j \in { x \in AllItems : x.GUID = "" } :
               DifferInOneField(ret.arg, j) => GenerateEntryID(j) # ret.val

\* An item without GUID and without raw published string, whose date
\* representation comes from the parsed date, was given its identifier while
\* the store held entries, and time has passed since.
C21_Witness ==
    /\ ret.op = "GenerateEntryID"
    /\ ret.arg.GUID = ""
    /\ ret.arg.Published = ""
    /\ ret.arg.PublishedParsed # NULL
    /\ ret.arg.Link # ""
    /\ entries # <<>>
    /\ clock > 0

----------------------------------------------------------------------------
(* Further properties of the command runs (specification RunSpec) *)

\* C23: a fetch run whose feed request fails ends with the error "failed to
\* fetch feed", and no step of the run up to there changes the table of
\* entries or the settings: nothing is inserted or deleted and the feed
\* metadata is not written.
C23_FailedFetchReconcilesNothing ==
    [][\A p \in Procs :
          /\ (pc[p] = "idle" /\ pc'[p] = "fetch_feed") =>
                 entries' = entries /\ settings' = settings
          /\ (pc[p] = "fetch_feed" /\ pc'[p] = "done") =>
                 /\ loc'[p].err = "failed to fetch feed"
                 /\ entries' = entries
                 /\ settings' = settings
      ]_vars

\* A fetch run has ended with the error while the store holds entries and
\* the feed metadata of an earlier run.
C23_Witness ==
    \E p \in Procs :
        /\ pc[p] = "done"
        /\ loc[p].cmd = "fetch"
        /\ loc[p].err = "failed to fetch feed"
        /\ entries # <<>>
        /\ GetSetting(settings, "feed_metadata") # NULL

\* C24 (as stated): a fetch run and a post run that end because the
\* configuration fails validation have not opened the store.
C24_InvalidConfigBeforeOpen ==
    \A p \in Procs :
        (pc[p] = "done" /\ loc[p].cmd \in {"fetch", "post"}
             /\ loc[p].err = "invalid config")
            => ~loc[p].opened

----------------------------------------------------------------------------
(* Properties of database.New (specification MigSpec) *)

\* C26: however often the file is opened, no migration script is executed
\* on it more than once; when database.New has returned, it has returned no
\* error, every defined version was executed once and is recorded, the
\* recorded current version is the highest defined version (1 when none is
\* defined), and opening the file again executes nothing, changes nothing
\* and returns no error.
C26_MigrationsOnce ==
    /\ \A v \in schema.defined : schema.applied[v] <= 1
    /\ ret.op = "database.New" =>
           /\ ret.err = "none"
           /\ \A v \in schema.defined :
                  schema.applied[v] = 1 /\ v \in schema.recorded
           /\ 1 \in schema.recorded
           /\ GetMigrationVersion(schema) = MaxOf(schema.defined \cup {1})
           /\ LET again == New(schema)
              IN  /\ again.err = "none"
                  /\ again.appliedCount = 0
                  /\ again.file = schema

\* database.New has returned from a file that was up to date, with versions
\* 2 and 3 defined, and has applied nothing.
C26_Witness ==
    /\ ret.op = "database.New"
    /\ ret.arg = 3
    /\ ret.val = 0
    /\ schema.defined = {2, 3}
    /\ entries # <<>>

----------------------------------------------------------------------------
(* Properties of the settings table (specification SettingsSpec) *)

SettingRows(table, key) == { row \in table : row.key = key }

\* C27: in every state of the settings table there is at most one row per
\* key and GetSetting of a key without row returns no value; SetSetting(k, v)
\* makes GetSetting(k) return v, a SetSetting(k, v2) after it makes it return
\* v2 with one row for k, and neither touches the other keys.
C27_SettingsUpsertRead ==
    /\ \A k \in SettingKeys :
           /\ Cardinality(SettingRows(settings, k)) <= 1
           /\ SettingRows(settings, k) = {} => GetSetting(settings, k) = NULL
    /\ \A k \in SettingKeys : \A v, v2 \in SettingValues :
           LET first == SetSetting(settings, k, v)
               second == SetSetting(first, k, v2)
           IN  /\ GetSetting(first, k) = <<v>>
               /\ GetSetting(second, k) = <<v2>>
               /\ Cardinality(SettingRows(second, k)) = 1
               /\ \A other \in SettingKeys \ {k} :
                      GetSetting(second, other) = GetSetting(settings, other)
    /\ ret.op = "SetSetting" =>
           ret.err = "none" /\ GetSetting(settings, ret.arg[1]) = <<ret.arg[2]>>
    /\ ret.op = "GetSetting" => ret.err = "none"

\* SetSetting has replaced the value of a key by another value, while the
\* other key has a value of its own.
C27_Witness ==
    /\ ret.op = "SetSetting"
    /\ ret.val # NULL
    /\ ret.val # <<ret.arg[2]>>
    /\ GetSetting(settings, ret.arg[1]) = <<ret.arg[2]>>
    /\ \E other \in SettingKeys \ {ret.arg[1]} :
           GetSetting(settings, other) \notin {NULL, <<ret.arg[2]>>}

----------------------------------------------------------------------------
(* Properties of SaveEntriesToDB (specification FetcherSpec) *)

----------------------------------------------------------------------------
(* Properties of two overlapping post runs (specification OverlapSpec) *)

\* The ids of the entries a post run has handed to the client's PostStatus.
SentIds(p) == SeqToSet(loc[p].sent)

InPostRun(p) ==
    /\ pc[p] \in { "post_entries", "post_mark", "done" }
    /\ loc[p].cmd = "post"
    /\ loc[p].dryRun = FALSE

\* C28 (as stated): when two post runs that are no dry runs overlap on the
\* same store, no entry is dispatched to the posting API by both runs.
C28_NoEntryDispatchedByBoth ==
    \A p \in PostProcs : \A q \in PostProcs \ {p} :
        (InPostRun(p) /\ InPostRun(q)) => SentIds(p) \cap SentIds(q) = {}

\* C28 (amended): when two post runs that are no dry runs overlap on the
\* same store, each run reads as its batch only entries that are unposted
\* at the time of the read, and dispatches only entries of its batch, each
\* at most once; an entry that is unposted when both runs read their batch
\* can be dispatched by both.
C28_DispatchesOwnBatchOnce ==
    [][\A p \in PostProcs :
          /\ (pc[p] = "post_read" /\ pc'[p] = "post_entries")
                 => BatchIds(p)' \subseteq UnpostedIds(entries)
          /\ InPostRun(p)'
                 => /\ SentIds(p)' \subseteq BatchIds(p)'
                    /\ \A i \in DOMAIN loc'[p].sent :
                       \A j \in DOMAIN loc'[p].sent :
                           loc'[p].sent[i] = loc'[p].sent[j] => i = j
      ]_vars

\* Two runs overlap; the second read its batch after the first had marked an
\* entry posted, so that its batch is smaller, and both have dispatched an
\* entry that was unposted at both reads.
C28_Witness ==
    \E p \in PostProcs : \E q \in PostProcs \ {p} :
        /\ InPostRun(p) /\ InPostRun(q)
        /\ SentIds(p) \cap SentIds(q) # {}
        /\ BatchIds(q) # BatchIds(p)
        /\ \E id \in BatchIds(p) \ BatchIds(q) : id \notin UnpostedIds(entries)

----------------------------------------------------------------------------
(* Properties of GetStats beside a writer (specification StatsSpec) *)

\* C29: the counts GetStats returns satisfy total = posted + unposted also
\* when another process inserts, deletes or marks entries between its three
\* count queries.
C29_StatsOneStoreState ==
    \A p \in Procs :
        (pc[p] = "done" /\ loc[p].cmd = "stats")
            => loc[p].total = loc[p].posted + loc[p].unposted

----------------------------------------------------------------------------
(* Further properties of GenerateEntryID (specification IdSpec) *)

\* The string that is hashed for an item without GUID.
Combined(item) == item.Title \o item.Link \o PublishedStr(item)

SameTriple(i, j) ==
    /\ i.Title = j.Title
    /\ i.Link = j.Link
    /\ PublishedStr(i) = PublishedStr(j)

\* C30 (as stated): any two items without GUID whose triples of title, link
\* and published-date string differ get different identifiers, the digest
\* being taken as collision-free on distinct input strings.
C30_DistinctTriplesDistinctIds ==
    (ret.op = "GenerateEntryID" /\ ret.arg.GUID = "") =>
        \A j \in { x \in AllItems : x.GUID = "" } :
            ~SameTriple(ret.arg, j) => GenerateEntryID(j) # ret.val

\* C30 (amended): any two items without GUID whose concatenations of title,
\* link and published-date string differ get different identifiers, the
\* digest being taken as collision-free on distinct input strings; two items
\* whose triples differ but concatenate to the same string get the same
\* identifier.
C30_DistinctConcatenationsDistinctIds ==
    (ret.op = "GenerateEntryID" /\ ret.arg.GUID = "") =>
        \A j \in { x \in AllItems : x.GUID = "" } :
            (Combined(ret.arg) # Combined(j)) <=> (GenerateEntryID(j) # ret.val)

\* The item with title "a" and link "b" was given its identifier; the item
\* with title "ab" and no link has another triple and the same identifier,
\* and the item with the same title and link and a publication date has
\* another identifier.
C30_Witness ==
    /\ ret.op = "GenerateEntryID"
    /\ ret.arg.GUID = "" /\ ret.arg.Title = "a" /\ ret.arg.Link = "b"
    /\ PublishedStr(ret.arg) = ""
    /\ \E j \in AllItems :
           /\ j.GUID = "" /\ j.Title = "ab" /\ j.Link = ""
           /\ GenerateEntryID(j) = ret.val
    /\ \E j \in AllItems :
           /\ j.GUID = "" /\ j.Title = "a" /\ j.Link = "b"
           /\ PublishedStr(j) # ""
           /\ GenerateEntryID(j) # ret.val

----------------------------------------------------------------------------
(* Properties of the runs as to what they remove (specification RunSpec) *)

\* The ids a step removes from the table of entries.
Removed == IdsOf(entries) \ IdsOf(entries')

\* C31: a step of a run removes entries only when it is the purge step of a
\* fetch run that was not given --no-purge, and then only ids that are no id
\* of the feed this run has fetched; no step of a fetch run with --no-purge,
\* of a post run, of a catch-up run or of a status run removes an entry.
C31_OnlyPurgeRemoves ==
    [][Removed # {} =>
          \E p \in Procs :
              /\ pc[p] = "fetch_purge" /\ pc'[p] = "fetch_stats"
              /\ loc[p].cmd = "fetch" /\ loc[p].noPurge = FALSE
              /\ \A i \in DOMAIN loc[p].feed[1].Items :
                     GenerateEntryID(loc[p].feed[1].Items[i]) \notin Removed
      ]_vars

\* The purge step of a fetch run has removed an entry while it kept the entry
\* of its feed, an entry marked posted by an earlier run.
C31_Witness ==
    \E p \in Procs :
        /\ pc[p] = "fetch_stats"
        /\ loc[p].cmd = "fetch" /\ loc[p].noPurge = FALSE
        /\ loc[p].purged > 0
        /\ \E i \in DOMAIN entries :
               /\ entries[i].posted_at # NULL
               /\ entries[i].id \in FeedIDs(loc[p].feed[1].Items)

----------------------------------------------------------------------------
(* Properties of the marking loops beside a purge (specification MarkSpec) *)

\* The ids a finished run had to mark: the first `posted` entries of the
\* batch of a post run, the whole batch of a catch-up run.
ToMark(p) ==
    IF loc[p].cmd = "post"
    THEN { loc[p].entries[k].ID : k \in 1 .. loc[p].posted }
    ELSE BatchIds(p)

\* C32: when a post run or a catch-up run that is no dry run ends, it ends
\* without error, also when MarkAsPosted has failed for an entry that a
\* purge had deleted in between, and MarkAsPosted was called for every entry
\* to be marked: each of them that is still stored is marked posted.
C32_MarkFailureDoesNotAbort ==
    \A p \in Procs :
        (pc[p] = "done" /\ loc[p].cmd \in {"post", "catchup"})
            => /\ loc[p].err = "none"
               /\ \A id \in ToMark(p) :
                      id \in IdsOf(entries) => RowOf(entries, id).posted_at # NULL

\* A post run has ended whose MarkAsPosted failed for an entry and succeeded
\* for an entry behind it in the batch.
C32_Witness ==
    \E p \in Procs :
        /\ pc[p] = "done" /\ loc[p].cmd = "post"
        /\ \E k \in 1 .. loc[p].posted : \E n \in 1 .. loc[p].posted :
               /\ k < n
               /\ loc[p].entries[k].ID \notin loc[p].marked
               /\ loc[p].entries[n].ID \in loc[p].marked
               /\ loc[p].entries[n].ID \in IdsOf(entries)

----------------------------------------------------------------------------
(* Properties of the summary of a fetch run (specification RunSpec) *)

\* C33: when a fetch run ends, the number of new entries it reports is the
\* number of entries it has inserted, with and without purge, and the
\* entries it has inserted are stored.
C33_NewEntriesAreInserted ==
    \A p \in Procs :
        FetchRunDone(p) =>
            /\ loc[p].newEntries = Cardinality(loc[p].inserted)
            /\ loc[p].inserted \subseteq IdsOf(entries)

\* A fetch run has ended that inserted one entry, found another item of its
\* feed stored, and purged an entry.
C33_Witness ==
    \E p \in Procs :
        /\ FetchRunDone(p)
        /\ loc[p].newEntries = 1
        /\ loc[p].purged > 0
        /\ Cardinality(FeedIDs(loc[p].feed[1].Items)) = 2

\* C34: when a fetch run ends, the number it logs as saved is the number of
\* entries it has newly saved, and the number it logs as skipped duplicates
\* is the number of feed items that were stored already.
C34_SkippedAreDuplicates ==
    \A p \in Procs :
        FetchRunDone(p) =>
            /\ loc[p].saved = Cardinality(loc[p].inserted)
            /\ loc[p].skipped =
                   Len(loc[p].feed[1].Items) - Cardinality(loc[p].inserted)

----------------------------------------------------------------------------
(* Properties of two overlapping database.New calls (specification OpenSpec) *)

\* C35: when two processes open the same new file at overlapping times,
\* database.New returns no error in either of them.
C35_BothOpensSucceed ==
    \A p \in OpenProcs :
        (pc[p] = "done" /\ loc[p].cmd = "open") => loc[p].err = "none"

----------------------------------------------------------------------------
(* Properties of repeated post runs (specification DrainSpec) *)

\* The stored entry renders with the configured template.
Renders(row) ==
    Render(ret.val.TemplateFile, LoadFeedMetadata(settings), row.entry_data).err
        = "none"

\* A run has ended that has dispatched the entry, and the entry is marked
\* posted.
DispatchedAndMarked(id) ==
    /\ id \in IdsOf(entries)
    /\ RowOf(entries, id).posted_at # NULL
    /\ \E p \in Procs : pc[p] = "done" /\ id \in SentIds(p)

AllUnpostedRender ==
    \A i \in DOMAIN entries : IsUnposted(entries[i]) => Renders(entries[i])

----------------------------------------------------------------------------
(* Properties of interrupted post runs (specification InterruptSpec) *)

\* C37: in a post run that is no dry run, no step up to the return of
\* PostEntries modifies the table of entries, and when the run is
\* interrupted during the batch, no entry it has dispatched is marked
\* posted.
C37_NoMarkBeforeBatchEnds ==
    \A p \in Procs :
        /\ pc[p] = "post_entries"
               => \A id \in BatchIds(p) : id \in UnpostedIds(entries)
        /\ (pc[p] = "interrupted" /\ loc[p].at = "post_entries")
               => \A id \in SentIds(p) : id \in UnpostedIds(entries)

\* A run was interrupted in its batch after it had dispatched the first of
\* two entries, at a later second than the one the entries were fetched in.
C37_Witness ==
    \E p \in Procs :
        /\ pc[p] = "interrupted" /\ loc[p].at = "post_entries"
        /\ SentIds(p) = { entries[1].id }
        /\ Len(entries) = 2
        /\ clock > entries[1].fetched_at

====
